---- MODULE Spec2Model ----
(***************************************************************************)
(* A model of the controllers of src/controllers.js.                       *)
(*                                                                         *)
(* StructureController: a table of facilities advanced by explicit calls   *)
(* of register / startBuild / startUpgrade / decommission / tick /         *)
(* getState.                                                               *)
(* SwarmController: a bounded fleet of drones driven by spawnDrone /       *)
(* dispatch / collect / returnToHub / getDroneStatus.                      *)
(*                                                                         *)
(* Every handler is a pure operator from the controller's state and the    *)
(* call's arguments to an outcome record: ok (FALSE when the handler       *)
(* throws), the state the controller holds afterwards, and the value       *)
(* returned.  One action per handler applies the operator and records the  *)
(* call in a history variable (the call, its outcome, the state before).   *)
(***************************************************************************)
EXTENDS Integers, Sequences, FiniteSets, TLC

VARIABLES
    structures,   \* StructureController.structures: id -> facility record
    sPrev,        \* history: structures before the last call
    sLast,        \* history: the last StructureController call and its outcome
    buildLog,     \* history: per facility, the n of startBuild(id, n) and ticks since
    config,       \* SwarmController.config (with droneSpec = SwarmController.spec)
    drones,       \* SwarmController.drones: id -> drone record
    nextDroneId,  \* SwarmController._nextDroneId
    dPrev,        \* history: drones before the last call
    dLast,        \* history: the last SwarmController call and its outcome
    spawnLog,     \* history: has spawnDrone failed, and has a drone returned since
    snapshot,     \* a record returned by getState / getDroneStatus that a caller holds
    blueprint,    \* PlannerController.blueprint (zones and connections as indexed)
    pLast,        \* history: the last PlannerController call and its result
    pSeen,        \* history: per PlannerController call, the result it gave first
    tLast,        \* history: the last call of the engine's tick and its outcome
    tFirst,       \* history: the first call of the engine's tick and its outcome
    collected     \* history: per drone, what collect returned since its last dispatch

structVars == <<structures, sPrev, sLast, buildLog>>
swarmVars == <<config, drones, nextDroneId, dPrev, dLast, spawnLog>>
plannerVars == <<blueprint, pLast, pSeen>>
tickVars == <<tLast, tFirst>>
ledgerVars == <<collected>>
vars == <<structures, sPrev, sLast, buildLog, config, drones, nextDroneId, dPrev, dLast,
          spawnLog, snapshot, blueprint, pLast, pSeen, tLast, tFirst, collected>>

Max(a, b) == IF a >= b THEN a ELSE b
Min(a, b) == IF a <= b THEN a ELSE b

(***************************************************************************)
(* Bounds of the model.                                                    *)
(***************************************************************************)
\* Largest tier a facility is registered with; upgrades stop at MaxTier + 1.
MaxTier == 2
\* Largest tick count handed to startBuild / startUpgrade.
MaxTicks == 3
\* Tick counts down to -MaxNegTicks are handed in too (the code takes any number).
MaxNegTicks == 1

FacilityIds == {"f1", "f2"}
Tiers == 1..MaxTier
TickArgs == (0 - MaxNegTicks)..MaxTicks

(***************************************************************************)
(* StructureState (controllers.js 128-134).                                *)
(***************************************************************************)
PLANNED == "planned"
BUILDING == "building"
OPERATIONAL == "operational"
UPGRADING == "upgrading"
DECOMMISSIONED == "decommissioned"
StructureState == {PLANNED, BUILDING, OPERATIONAL, UPGRADING, DECOMMISSIONED}

EmptyTable == [x \in {} |-> 0]
NoValue == "undefined"

(***************************************************************************)
(* A record a caller holds.  rec is what the caller reads from it now, own *)
(* is what the caller got plus the caller's own writes, shares names the   *)
(* parts of it that are still the controller's own objects: "record" (the  *)
(* record itself) or one of its object-valued fields.                      *)
(***************************************************************************)
NoSnapshot ==
    [held |-> FALSE, id |-> NoValue, rec |-> NoValue, own |-> NoValue, shares |-> {}]

\* No PlannerController is in use.
NoBlueprint == [zones |-> [z \in {} |-> <<>>], connections |-> <<>>]

Snapshot(id, rec, shares) ==
    [held |-> TRUE, id |-> id, rec |-> rec, own |-> rec, shares |-> shares]

\* { ...o }: a new object with o's fields; a field holding an object holds the
\* same object in the copy.
SpreadShares(objectFields) == objectFields

\* A facility's fields are a string and two numbers (controllers.js 151-155).
FacilityObjectFields == {}
\* A drone's position is an object (controllers.js 257-262).
DroneObjectFields == {"position"}

\* A handler that returned normally: the table it leaves and its return value.
SReturn(S, ret) == [ok |-> TRUE, structures |-> S, ret |-> ret, err |-> "none"]
\* A handler that threw: the table as it was when the throw happened.
SThrow(S, err) == [ok |-> FALSE, structures |-> S, ret |-> NoValue, err |-> err]

\* StructureController._get: the facility, or a throw for an unknown id.
HasStructure(S, id) == id \in DOMAIN S

\* register without the duplicate check: a second register overwrites the record.
register_Overwrites(S, id, tier) ==
    SReturn([x \in DOMAIN S \cup {id} |->
               IF x = id
               THEN [state |-> PLANNED, tier |-> tier, ticksRemaining |-> 0]
               ELSE S[x]], NoValue)

\* StructureController.register(id, tier)
register(S, id, tier) ==
    IF HasStructure(S, id)
    THEN SThrow(S, "already registered")
    ELSE SReturn([x \in DOMAIN S \cup {id} |->
                    IF x = id
                    THEN [state |-> PLANNED, tier |-> tier, ticksRemaining |-> 0]
                    ELSE S[x]], NoValue)

\* startBuild that stores the countdown before it checks the state.
startBuild_AssignsFirst(S, id, ticks) ==
    IF ~HasStructure(S, id)
    THEN SThrow(S, "unknown structure")
    ELSE IF S[id].state # PLANNED
         THEN SThrow([S EXCEPT ![id].ticksRemaining = ticks], "cannot build")
         ELSE SReturn([S EXCEPT ![id].state = BUILDING,
                                ![id].ticksRemaining = ticks], NoValue)

\* startBuild that treats a tick count of 0 as already complete.
startBuild_CompletesAtZero(S, id, ticks) ==
    IF ~HasStructure(S, id)
    THEN SThrow(S, "unknown structure")
    ELSE IF S[id].state # PLANNED
         THEN SThrow(S, "cannot build")
         ELSE SReturn([S EXCEPT ![id].state = IF ticks = 0 THEN OPERATIONAL
                                                            ELSE BUILDING,
                                ![id].ticksRemaining = ticks], NoValue)

\* StructureController.startBuild(id, ticks)
startBuild(S, id, ticks) ==
    IF ~HasStructure(S, id)
    THEN SThrow(S, "unknown structure")
    ELSE IF S[id].state # PLANNED
         THEN SThrow(S, "cannot build")
         ELSE SReturn([S EXCEPT ![id].state = BUILDING,
                                ![id].ticksRemaining = ticks], NoValue)

\* startUpgrade that accepts every state but DECOMMISSIONED.
startUpgrade_AnyLiveState(S, id, ticks) ==
    IF ~HasStructure(S, id)
    THEN SThrow(S, "unknown structure")
    ELSE IF S[id].state = DECOMMISSIONED
         THEN SThrow(S, "cannot upgrade")
         ELSE SReturn([S EXCEPT ![id].state = UPGRADING,
                                ![id].ticksRemaining = ticks], NoValue)

\* StructureController.startUpgrade(id, ticks)
startUpgrade(S, id, ticks) ==
    IF ~HasStructure(S, id)
    THEN SThrow(S, "unknown structure")
    ELSE IF S[id].state # OPERATIONAL
         THEN SThrow(S, "cannot upgrade")
         ELSE SReturn([S EXCEPT ![id].state = UPGRADING,
                                ![id].ticksRemaining = ticks], NoValue)

\* decommission that completes an upgrade in progress before retiring.
decommission_FinishesUpgrade(S, id) ==
    IF ~HasStructure(S, id)
    THEN SThrow(S, "unknown structure")
    ELSE SReturn([S EXCEPT ![id].state = DECOMMISSIONED,
                           ![id].tier = IF S[id].state = UPGRADING THEN @ + 1 ELSE @,
                           ![id].ticksRemaining = 0], NoValue)

\* decommission that leaves the countdown where it was.
decommission_KeepsCountdown(S, id) ==
    IF ~HasStructure(S, id)
    THEN SThrow(S, "unknown structure")
    ELSE SReturn([S EXCEPT ![id].state = DECOMMISSIONED], NoValue)

\* StructureController.decommission(id)
decommission(S, id) ==
    IF ~HasStructure(S, id)
    THEN SThrow(S, "unknown structure")
    ELSE SReturn([S EXCEPT ![id].state = DECOMMISSIONED,
                           ![id].ticksRemaining = 0], NoValue)

\* tick's loop body testing the countdown before decrementing it: one tick late.
tickOne_TestsBeforeDecrement(s) ==
    IF s.state = BUILDING \/ s.state = UPGRADING
    THEN IF s.ticksRemaining <= 0
         THEN [state |-> OPERATIONAL,
               tier |-> IF s.state = UPGRADING THEN s.tier + 1 ELSE s.tier,
               ticksRemaining |-> 0]
         ELSE [s EXCEPT !.ticksRemaining = @ - 1]
    ELSE s

\* tick's loop body granting the tier increment on every completion.
tickOne_AlwaysBumpsTier(s) ==
    IF s.state = BUILDING \/ s.state = UPGRADING
    THEN LET r == Max(0, s.ticksRemaining - 1)
         IN  IF r = 0
             THEN [state |-> OPERATIONAL, tier |-> s.tier + 1, ticksRemaining |-> r]
             ELSE [s EXCEPT !.ticksRemaining = r]
    ELSE s

\* tick's loop body with the countdown floored at 1 instead of 0.
tickOne_FloorsAtOne(s) ==
    IF s.state = BUILDING \/ s.state = UPGRADING
    THEN LET r == Max(1, s.ticksRemaining - 1)
         IN  IF r = 0
             THEN [state |-> OPERATIONAL,
                   tier |-> IF s.state = UPGRADING THEN s.tier + 1 ELSE s.tier,
                   ticksRemaining |-> r]
             ELSE [s EXCEPT !.ticksRemaining = r]
    ELSE s

\* The body of tick()'s loop for one facility s.
tickOne(s) ==
    IF s.state = BUILDING \/ s.state = UPGRADING
    THEN LET r == Max(0, s.ticksRemaining - 1)
         IN  IF r = 0
             THEN [state |-> OPERATIONAL,
                   tier |-> IF s.state = UPGRADING THEN s.tier + 1 ELSE s.tier,
                   ticksRemaining |-> r]
             ELSE [s EXCEPT !.ticksRemaining = r]
    ELSE s

\* tick() whose loop skips the facilities that are UPGRADING.
tick_OnlyBuilding(S) ==
    SReturn([id \in DOMAIN S |->
               IF S[id].state = BUILDING THEN tickOne(S[id]) ELSE S[id]], NoValue)

\* StructureController.tick(): the loop visits every facility once; the
\* iterations touch disjoint records, so their order does not matter.
tick(S) == SReturn([id \in DOMAIN S |-> tickOne(S[id])], NoValue)

\* getState handing out the controller's record itself (return this._get(id)).
getStateShares_LiveRecord == {"record"}

\* What the record returned by getState shares with the controller.
getStateShares == SpreadShares(FacilityObjectFields)

\* StructureController.getState(id): a copy of the record.
getState(S, id) ==
    IF ~HasStructure(S, id)
    THEN SThrow(S, "unknown structure")
    ELSE SReturn(S, S[id])

(***************************************************************************)
(* History kept beside the controller: for startBuild(id, n), n and the    *)
(* number k of tick() calls since, while nothing else was called on id;   *)
(* and the tier the facility had when startUpgrade was last called on it.  *)
(***************************************************************************)
NoBuild == [tracked |-> FALSE, n |-> 0, k |-> 0, upTier |-> 0]

LogAfter(call, out, log) ==
    IF ~out.ok THEN log
    ELSE IF call.op = "register"
         THEN [x \in DOMAIN out.structures |->
                 IF x \in DOMAIN log THEN log[x] ELSE NoBuild]
    ELSE IF call.op = "startBuild"
         THEN [log EXCEPT ![call.id] =
                 [tracked |-> TRUE, n |-> call.arg, k |-> 0, upTier |-> 0]]
    ELSE IF call.op = "startUpgrade"
         THEN [log EXCEPT ![call.id] =
                 [NoBuild EXCEPT !.upTier = out.structures[call.id].tier]]
    ELSE IF call.op = "decommission"
         THEN [log EXCEPT ![call.id] = NoBuild]
    ELSE IF call.op = "tick"
         THEN [x \in DOMAIN log |->
                 IF log[x].tracked /\ log[x].k < log[x].n
                 THEN [log[x] EXCEPT !.k = @ + 1]
                 ELSE log[x]]
    ELSE log

\* One call of the StructureController: the outcome out of call is applied.
SCall(call, out) ==
    /\ structures' = out.structures
    /\ sPrev' = structures
    /\ sLast' = [op |-> call.op, id |-> call.id, arg |-> call.arg,
                 ok |-> out.ok, ret |-> out.ret, err |-> out.err]
    /\ buildLog' = LogAfter(call, out, buildLog)
    /\ UNCHANGED <<swarmVars, plannerVars, tickVars, ledgerVars>>

\* A held record that is the controller's own record reads as the table does.
SeenThroughRecord(snap, S) ==
    IF snap.held /\ "record" \in snap.shares
    THEN [snap EXCEPT !.rec = S[snap.id]]
    ELSE snap

\* A call whose return value the caller drops.
SStep(call, out) ==
    /\ SCall(call, out)
    /\ snapshot' = SeenThroughRecord(snapshot, out.structures)

Call(op, id, arg) == [op |-> op, id |-> id, arg |-> arg]

Register ==
    \E id \in FacilityIds, tier \in Tiers :
        SStep(Call("register", id, tier), register(structures, id, tier))

StartBuild ==
    \E id \in FacilityIds, ticks \in TickArgs :
        SStep(Call("startBuild", id, ticks), startBuild(structures, id, ticks))

\* The tier is capped: an upgrade that would succeed at MaxTier + 1 is not started.
StartUpgrade ==
    \E id \in FacilityIds, ticks \in TickArgs :
        /\ ~(/\ HasStructure(structures, id)
             /\ structures[id].state = OPERATIONAL
             /\ structures[id].tier > MaxTier)
        /\ SStep(Call("startUpgrade", id, ticks), startUpgrade(structures, id, ticks))

Decommission ==
    \E id \in FacilityIds :
        SStep(Call("decommission", id, 0), decommission(structures, id))

Tick == SStep(Call("tick", NoValue, 0), tick(structures))

GetState ==
    \E id \in FacilityIds :
        SStep(Call("getState", id, 0), getState(structures, id))

NoCall == [op |-> "none", id |-> NoValue, arg |-> 0,
           ok |-> TRUE, ret |-> NoValue, err |-> "none"]

StructNext ==
    \/ Register
    \/ StartBuild
    \/ StartUpgrade
    \/ Decommission
    \/ Tick
    \/ GetState

\* new StructureController(): an empty table.  No SwarmController is in use.
StructInit ==
    /\ structures = EmptyTable
    /\ sPrev = EmptyTable
    /\ sLast = NoCall
    /\ buildLog = EmptyTable
    /\ config = NoValue
    /\ drones = EmptyTable
    /\ nextDroneId = 0
    /\ dPrev = [drones |-> EmptyTable, nextDroneId |-> 0]
    /\ dLast = NoCall
    /\ spawnLog = [phase |-> "none", was |-> "none"]
    /\ snapshot = NoSnapshot
    /\ blueprint = NoBlueprint
    /\ pLast = NoCall
    /\ pSeen = EmptyTable
    /\ tLast = NoCall
    /\ tFirst = NoCall
    /\ collected = EmptyTable

StructSpec == StructInit /\ [][StructNext]_vars

(***************************************************************************)
(* A caller that keeps what getState returned and assigns to its fields,   *)
(* while the controller goes on.  The calls name one facility.             *)
(***************************************************************************)
SnapshotFacility == "f1"

\* getState(id) with the result kept by the caller.
KeepState ==
    LET out == getState(structures, SnapshotFacility)
    IN  /\ SCall(Call("getState", SnapshotFacility, 0), out)
        /\ snapshot' = IF out.ok
                       THEN Snapshot(SnapshotFacility, out.ret, getStateShares)
                       ELSE SeenThroughRecord(snapshot, out.structures)

FieldWrites ==
    { [field |-> "state", value |-> DECOMMISSIONED],
      [field |-> "state", value |-> OPERATIONAL],
      [field |-> "tier", value |-> 9],
      [field |-> "ticksRemaining", value |-> 9] }

\* snapshot.field = value, by the caller: it reaches the controller's record
\* exactly when the held record is that record.
WriteStateField ==
    \E w \in FieldWrites :
        /\ snapshot.held
        /\ snapshot.own[w.field] # w.value
        /\ snapshot' = [snapshot EXCEPT !.rec[w.field] = w.value,
                                        !.own[w.field] = w.value]
        /\ structures' = IF "record" \in snapshot.shares
                         THEN [structures EXCEPT ![snapshot.id][w.field] = w.value]
                         ELSE structures
        /\ sPrev' = structures
        /\ sLast' = [op |-> "callerWrite", id |-> snapshot.id, arg |-> w.field,
                     ok |-> TRUE, ret |-> NoValue, err |-> "none"]
        /\ UNCHANGED <<buildLog, swarmVars, plannerVars, tickVars, ledgerVars>>

SnapshotStructNext ==
    \/ StructNext /\ sLast'.id # "f2"
    \/ KeepState
    \/ WriteStateField

SnapshotStructSpec == StructInit /\ [][SnapshotStructNext]_vars

(***************************************************************************)
(* StructureController: the lifecycle.                                     *)
(***************************************************************************)
\* A facility the last call found and left in the table, with both records.
Tracked == DOMAIN sPrev \cap DOMAIN structures

LifecycleEdge(op, from, to) ==
    \/ from = PLANNED /\ to = BUILDING /\ op = "startBuild"
    \/ from = BUILDING /\ to = OPERATIONAL /\ op = "tick"
    \/ from = OPERATIONAL /\ to = UPGRADING /\ op = "startUpgrade"
    \/ from = UPGRADING /\ to = OPERATIONAL /\ op = "tick"
    \/ to = DECOMMISSIONED /\ op = "decommission"

\* C1: every change of a facility's state made by a call is one of the edges
\* PLANNED->BUILDING (startBuild), BUILDING->OPERATIONAL (tick),
\* OPERATIONAL->UPGRADING (startUpgrade), UPGRADING->OPERATIONAL (tick),
\* any->DECOMMISSIONED (decommission); a facility enters the table PLANNED,
\* by register, and never leaves it.
C1_OnlyLifecycleEdges ==
    /\ DOMAIN sPrev \subseteq DOMAIN structures
    /\ \A id \in DOMAIN structures :
        IF id \in DOMAIN sPrev
        THEN \/ structures[id].state = sPrev[id].state
             \/ LifecycleEdge(sLast.op, sPrev[id].state, structures[id].state)
        ELSE structures[id].state = PLANNED /\ sLast.op = "register"

\* C1 witness: each of the five edges has just been taken by some facility.
EdgeTaken(from, to) ==
    \E id \in Tracked : sPrev[id].state = from /\ structures[id].state = to

C1_Witness ==
    /\ sLast.op = "tick"
    /\ EdgeTaken(UPGRADING, OPERATIONAL)
    /\ EdgeTaken(BUILDING, OPERATIONAL)

\* C2: after startBuild(id, n), n >= 1, and k calls of tick() with nothing else
\* called on id: k < n gives BUILDING with ticksRemaining = n - k, and k = n
\* gives OPERATIONAL with ticksRemaining = 0.
C2_BuildCountdown ==
    \A id \in DOMAIN buildLog :
        LET b == buildLog[id]
            s == structures[id]
        IN  (b.tracked /\ b.n >= 1) =>
                IF b.k < b.n
                THEN s.state = BUILDING /\ s.ticksRemaining = b.n - b.k
                ELSE s.state = OPERATIONAL /\ s.ticksRemaining = 0

\* C2 witness: a build of n >= 2 ticks has just seen its n-th tick, and another
\* facility is part-way through its own build.
C2_Witness ==
    /\ sLast.op = "tick"
    /\ \E id \in Tracked :
        /\ buildLog[id].tracked /\ buildLog[id].n >= 2
        /\ buildLog[id].k = buildLog[id].n
        /\ sPrev[id].state = BUILDING
    /\ \E id \in Tracked :
        /\ buildLog[id].tracked
        /\ 0 < buildLog[id].k /\ buildLog[id].k < buildLog[id].n

\* C3: a facility's tier changes only when tick() completes an upgrade, and
\* then by exactly +1 over the tier it had when startUpgrade was called; a
\* completed build keeps the tier; nothing else changes a tier.
C3_TierOnlyByUpgrade ==
    \A id \in Tracked :
        LET completedUpgrade ==
                /\ sLast.op = "tick"
                /\ sPrev[id].state = UPGRADING
                /\ structures[id].state = OPERATIONAL
        IN  /\ structures[id].state = UPGRADING =>
                structures[id].tier = buildLog[id].upTier
            /\ IF completedUpgrade
               THEN /\ structures[id].tier = sPrev[id].tier + 1
                    /\ structures[id].tier = buildLog[id].upTier + 1
               ELSE structures[id].tier = sPrev[id].tier

\* C3 witness: an upgrade that took more than one tick has just completed while
\* another facility completed its build in the same tick.
C3_Witness ==
    /\ sLast.op = "tick"
    /\ \E id \in Tracked :
        /\ sPrev[id].state = UPGRADING /\ structures[id].state = OPERATIONAL
        /\ structures[id].tier = buildLog[id].upTier + 1
        /\ buildLog[id].upTier >= 2
    /\ \E id \in Tracked :
        sPrev[id].state = BUILDING /\ structures[id].state = OPERATIONAL

\* C4: a DECOMMISSIONED facility stays in the table with the same state, tier
\* and ticksRemaining whatever is called next; startBuild and startUpgrade on
\* it fail and getState on it succeeds.
C4_DecommissionedIsTerminal ==
    \A id \in DOMAIN sPrev :
        sPrev[id].state = DECOMMISSIONED =>
            /\ id \in DOMAIN structures
            /\ structures[id] = sPrev[id]
            /\ (sLast.id = id /\ sLast.op \in {"startBuild", "startUpgrade"})
                    => ~sLast.ok
            /\ (sLast.id = id /\ sLast.op = "getState")
                    => (sLast.ok /\ sLast.ret = sPrev[id])

\* C4 witness: startUpgrade was just tried on a decommissioned facility that had
\* been upgraded before.
C4_Witness ==
    /\ sLast.op = "startUpgrade"
    /\ sLast.id \in DOMAIN sPrev
    /\ sPrev[sLast.id].state = DECOMMISSIONED
    /\ sPrev[sLast.id].tier > MaxTier

\* Why the call made last must fail, if it must.
MustFail ==
    \/ sLast.op = "register" /\ sLast.id \in DOMAIN sPrev
    \/ sLast.op \in {"startBuild", "startUpgrade", "decommission", "getState"}
        /\ sLast.id \notin DOMAIN sPrev
    \/ sLast.op = "startBuild" /\ sLast.id \in DOMAIN sPrev
        /\ sPrev[sLast.id].state # PLANNED
    \/ sLast.op = "startUpgrade" /\ sLast.id \in DOMAIN sPrev
        /\ sPrev[sLast.id].state # OPERATIONAL

\* C5: register of an existing id, startBuild off PLANNED, startUpgrade off
\* OPERATIONAL and startBuild/startUpgrade/decommission/getState of an unknown
\* id all fail, and a failed call leaves the whole table as it was.
C5_FailureLeavesTableUnchanged ==
    /\ MustFail => ~sLast.ok
    /\ ~sLast.ok => structures = sPrev

\* C5 witness: startBuild has just failed on a facility that is mid-upgrade.
C5_Witness ==
    /\ sLast.op = "startBuild" /\ ~sLast.ok
    /\ sLast.id \in DOMAIN sPrev
    /\ sPrev[sLast.id].state = UPGRADING
    /\ sPrev[sLast.id].ticksRemaining > 0
    /\ sLast.arg # sPrev[sLast.id].ticksRemaining

(***************************************************************************)
(* SwarmController.                                                        *)
(*                                                                         *)
(* A drone id `drone-<n>` is modelled by the number n.  returnThreshold is *)
(* a fraction num/den, and the test cargo / cargoCapacity >= 1 - threshold *)
(* is cargo * den >= (den - num) * cargoCapacity (cargoCapacity > 0).      *)
(***************************************************************************)
\* Largest maxDrones of a configuration (the blueprint's own is 12).
MaxFleet == 2
\* collect is given negative amounts too (5 units at a time); cargo is followed
\* down to MaxDebt such collects below empty.
MaxDebt == 1

Origin == [x |-> 0, y |-> 0, z |-> 0]
NoRoute == "null"

PatrolRoutes ==
    << [id |-> "route-intake-sweep",
        waypoints |-> << [x |-> -50, y |-> 0, z |-> 0], [x |-> -50, y |-> 0, z |-> 40] >>],
       [id |-> "route-perimeter",
        waypoints |-> << [x |-> 10, y |-> 20, z |-> 5] >>] >>

SwarmConfig(maxDrones, cargoCapacity, num, den) ==
    [maxDrones |-> maxDrones,
     droneSpec |-> [cargoCapacity |-> cargoCapacity,
                    returnThreshold |-> [num |-> num, den |-> den]],
     patrolRoutes |-> PatrolRoutes]

\* The swarm sections the controller is constructed with: the blueprint's drone
\* spec (capacity 50, threshold 0.1), and two smaller ones.
SwarmConfigs ==
    { SwarmConfig(2, 50, 1, 10),
      SwarmConfig(MaxFleet, 20, 1, 2),
      SwarmConfig(1, 10, 0, 1) }

DroneIdArgs == 0..MaxFleet
RouteIdArgs == {"route-intake-sweep", "route-perimeter", "nonexistent-route"}
AmountArgs == {-5, 0, 20, 25, 30, 60}

\* The controller's mutable fields.
Swarm(D, n) == [drones |-> D, nextDroneId |-> n]

WReturn(W, ret) ==
    [ok |-> TRUE, drones |-> W.drones, nextDroneId |-> W.nextDroneId,
     ret |-> ret, err |-> "none"]
WThrow(W, err) ==
    [ok |-> FALSE, drones |-> W.drones, nextDroneId |-> W.nextDroneId,
     ret |-> NoValue, err |-> err]

\* SwarmController._getDrone: the drone, or a throw for an unknown id.
HasDrone(W, id) == id \in DOMAIN W.drones

\* spawnDrone admitting one drone more than maxDrones (> for >=).
spawnDrone_OffByOne(cfg, W) ==
    IF Cardinality(DOMAIN W.drones) > cfg.maxDrones
    THEN WThrow(W, "at capacity")
    ELSE LET id == W.nextDroneId
         IN  WReturn(Swarm([x \in DOMAIN W.drones \cup {id} |->
                              IF x = id
                              THEN [cargo |-> 0, position |-> Origin,
                                    state |-> "idle", routeId |-> NoRoute]
                              ELSE W.drones[x]],
                           W.nextDroneId + 1), id)

\* spawnDrone that never advances _nextDroneId: every drone is drone-0.
spawnDrone_ReusesId(cfg, W) ==
    IF Cardinality(DOMAIN W.drones) >= cfg.maxDrones
    THEN WThrow(W, "at capacity")
    ELSE LET id == W.nextDroneId
         IN  WReturn(Swarm([x \in DOMAIN W.drones \cup {id} |->
                              IF x = id
                              THEN [cargo |-> 0, position |-> Origin,
                                    state |-> "idle", routeId |-> NoRoute]
                              ELSE W.drones[x]],
                           W.nextDroneId), id)

\* spawnDrone that takes the id before it tests the capacity.
spawnDrone_ConsumesIdOnFailure(cfg, W) ==
    IF Cardinality(DOMAIN W.drones) >= cfg.maxDrones
    THEN WThrow(Swarm(W.drones, W.nextDroneId + 1), "at capacity")
    ELSE LET id == W.nextDroneId
         IN  WReturn(Swarm([x \in DOMAIN W.drones \cup {id} |->
                              IF x = id
                              THEN [cargo |-> 0, position |-> Origin,
                                    state |-> "idle", routeId |-> NoRoute]
                              ELSE W.drones[x]],
                           W.nextDroneId + 1), id)

\* spawnDrone counting only the drones that are out: a returned drone frees a slot.
spawnDrone_CountsBusyDrones(cfg, W) ==
    IF Cardinality({d \in DOMAIN W.drones : W.drones[d].state # "idle"}) >= cfg.maxDrones
    THEN WThrow(W, "at capacity")
    ELSE LET id == W.nextDroneId
         IN  WReturn(Swarm([x \in DOMAIN W.drones \cup {id} |->
                              IF x = id
                              THEN [cargo |-> 0, position |-> Origin,
                                    state |-> "idle", routeId |-> NoRoute]
                              ELSE W.drones[x]],
                           W.nextDroneId + 1), id)

\* SwarmController.spawnDrone()
spawnDrone(cfg, W) ==
    IF Cardinality(DOMAIN W.drones) >= cfg.maxDrones
    THEN WThrow(W, "at capacity")
    ELSE LET id == W.nextDroneId
         IN  WReturn(Swarm([x \in DOMAIN W.drones \cup {id} |->
                              IF x = id
                              THEN [cargo |-> 0, position |-> Origin,
                                    state |-> "idle", routeId |-> NoRoute]
                              ELSE W.drones[x]],
                           W.nextDroneId + 1), id)

\* patrolRoutes.find((r) => r.id === routeId): the first match, if any.
RouteIndexes(cfg, routeId) ==
    {i \in 1..Len(cfg.patrolRoutes) : cfg.patrolRoutes[i].id = routeId}

FindRoute(cfg, routeId) ==
    LET I == RouteIndexes(cfg, routeId)
    IN  cfg.patrolRoutes[CHOOSE i \in I : \A j \in I : i <= j]

\* dispatch sending the drone to the route's last waypoint.
dispatch_LastWaypoint(cfg, W, droneId, routeId) ==
    IF ~HasDrone(W, droneId)
    THEN WThrow(W, "unknown drone")
    ELSE IF RouteIndexes(cfg, routeId) = {}
    THEN WThrow(W, "unknown route")
    ELSE IF W.drones[droneId].state # "idle"
    THEN WThrow(W, "not idle")
    ELSE LET wps == FindRoute(cfg, routeId).waypoints
         IN  WReturn(Swarm([W.drones EXCEPT
                              ![droneId].state = "collecting",
                              ![droneId].routeId = routeId,
                              ![droneId].position = wps[Len(wps)]],
                           W.nextDroneId), NoValue)

\* dispatch without the idle check: a drone under way is sent out again.
dispatch_SkipsIdleCheck(cfg, W, droneId, routeId) ==
    IF ~HasDrone(W, droneId)
    THEN WThrow(W, "unknown drone")
    ELSE IF RouteIndexes(cfg, routeId) = {}
    THEN WThrow(W, "unknown route")
    ELSE WReturn(Swarm([W.drones EXCEPT
                          ![droneId].state = "collecting",
                          ![droneId].routeId = routeId,
                          ![droneId].position = FindRoute(cfg, routeId).waypoints[1]],
                       W.nextDroneId), NoValue)

\* dispatch testing the drone's state before it looks the route up.
dispatch_StateBeforeRoute(cfg, W, droneId, routeId) ==
    IF ~HasDrone(W, droneId)
    THEN WThrow(W, "unknown drone")
    ELSE IF W.drones[droneId].state # "idle"
    THEN WThrow(W, "not idle")
    ELSE IF RouteIndexes(cfg, routeId) = {}
    THEN WThrow(W, "unknown route")
    ELSE WReturn(Swarm([W.drones EXCEPT
                          ![droneId].state = "collecting",
                          ![droneId].routeId = routeId,
                          ![droneId].position = FindRoute(cfg, routeId).waypoints[1]],
                       W.nextDroneId), NoValue)

\* SwarmController.dispatch(droneId, routeId)
dispatch(cfg, W, droneId, routeId) ==
    IF ~HasDrone(W, droneId)
    THEN WThrow(W, "unknown drone")
    ELSE IF RouteIndexes(cfg, routeId) = {}
    THEN WThrow(W, "unknown route")
    ELSE IF W.drones[droneId].state # "idle"
    THEN WThrow(W, "not idle")
    ELSE WReturn(Swarm([W.drones EXCEPT
                          ![droneId].state = "collecting",
                          ![droneId].routeId = routeId,
                          ![droneId].position = FindRoute(cfg, routeId).waypoints[1]],
                       W.nextDroneId), NoValue)

\* The threshold read as a fill ratio: cargo / cargoCapacity >= returnThreshold.
AtReturnThreshold_FillRatio(cfg, cargo) ==
    LET thr == cfg.droneSpec.returnThreshold
    IN  cargo * thr.den >= thr.num * cfg.droneSpec.cargoCapacity

\* drone.cargo / cargoCapacity >= 1 - returnThreshold
AtReturnThreshold(cfg, cargo) ==
    LET thr == cfg.droneSpec.returnThreshold
    IN  cargo * thr.den >= (thr.den - thr.num) * cfg.droneSpec.cargoCapacity

\* collect without the clamp: the whole amount is loaded.
collect_NoClamp(cfg, W, droneId, amount) ==
    IF ~HasDrone(W, droneId)
    THEN WThrow(W, "unknown drone")
    ELSE IF W.drones[droneId].state # "collecting"
    THEN WThrow(W, "not collecting")
    ELSE LET cargo == W.drones[droneId].cargo + amount
         IN  WReturn(Swarm([W.drones EXCEPT
                              ![droneId].cargo = cargo,
                              ![droneId].state =
                                  IF AtReturnThreshold(cfg, cargo)
                                  THEN "returning" ELSE @],
                           W.nextDroneId), amount)

\* collect returning the amount asked for instead of the amount loaded.
collect_ReturnsRequested(cfg, W, droneId, amount) ==
    IF ~HasDrone(W, droneId)
    THEN WThrow(W, "unknown drone")
    ELSE IF W.drones[droneId].state # "collecting"
    THEN WThrow(W, "not collecting")
    ELSE LET space == cfg.droneSpec.cargoCapacity - W.drones[droneId].cargo
             actual == Min(amount, space)
             cargo == W.drones[droneId].cargo + actual
         IN  WReturn(Swarm([W.drones EXCEPT
                              ![droneId].cargo = cargo,
                              ![droneId].state =
                                  IF AtReturnThreshold(cfg, cargo)
                                  THEN "returning" ELSE @],
                           W.nextDroneId), amount)

\* collect that also loads a drone that is already returning.
collect_AlsoWhileReturning(cfg, W, droneId, amount) ==
    IF ~HasDrone(W, droneId)
    THEN WThrow(W, "unknown drone")
    ELSE IF W.drones[droneId].state = "idle"
    THEN WThrow(W, "not collecting")
    ELSE LET space == cfg.droneSpec.cargoCapacity - W.drones[droneId].cargo
             actual == Min(amount, space)
             cargo == W.drones[droneId].cargo + actual
         IN  WReturn(Swarm([W.drones EXCEPT
                              ![droneId].cargo = cargo,
                              ![droneId].state =
                                  IF AtReturnThreshold(cfg, cargo)
                                  THEN "returning" ELSE @],
                           W.nextDroneId), actual)

\* collect that replaces the cargo by what it loaded.
collect_OverwritesCargo(cfg, W, droneId, amount) ==
    IF ~HasDrone(W, droneId)
    THEN WThrow(W, "unknown drone")
    ELSE IF W.drones[droneId].state # "collecting"
    THEN WThrow(W, "not collecting")
    ELSE LET space == cfg.droneSpec.cargoCapacity - W.drones[droneId].cargo
             actual == Min(amount, space)
             cargo == actual
         IN  WReturn(Swarm([W.drones EXCEPT
                              ![droneId].cargo = cargo,
                              ![droneId].state =
                                  IF AtReturnThreshold(cfg, cargo)
                                  THEN "returning" ELSE @],
                           W.nextDroneId), actual)

\* SwarmController.collect(droneId, amount)
collect(cfg, W, droneId, amount) ==
    IF ~HasDrone(W, droneId)
    THEN WThrow(W, "unknown drone")
    ELSE IF W.drones[droneId].state # "collecting"
    THEN WThrow(W, "not collecting")
    ELSE LET space == cfg.droneSpec.cargoCapacity - W.drones[droneId].cargo
             actual == Min(amount, space)
             cargo == W.drones[droneId].cargo + actual
         IN  WReturn(Swarm([W.drones EXCEPT
                              ![droneId].cargo = cargo,
                              ![droneId].state =
                                  IF AtReturnThreshold(cfg, cargo)
                                  THEN "returning" ELSE @],
                           W.nextDroneId), actual)

\* returnToHub reading the cargo after it has reset it.
returnToHub_ReadsAfterReset(cfg, W, droneId) ==
    IF ~HasDrone(W, droneId)
    THEN WThrow(W, "unknown drone")
    ELSE IF W.drones[droneId].state # "returning"
            /\ W.drones[droneId].state # "collecting"
    THEN WThrow(W, "cannot return")
    ELSE WReturn(Swarm([W.drones EXCEPT
                          ![droneId] = [cargo |-> 0, position |-> Origin,
                                        state |-> "idle", routeId |-> NoRoute]],
                       W.nextDroneId), 0)

\* returnToHub that calls every drone under way back with the one named.
returnToHub_RecallsFleet(cfg, W, droneId) ==
    IF ~HasDrone(W, droneId)
    THEN WThrow(W, "unknown drone")
    ELSE IF W.drones[droneId].state # "returning"
            /\ W.drones[droneId].state # "collecting"
    THEN WThrow(W, "cannot return")
    ELSE LET offloaded == W.drones[droneId].cargo
         IN  WReturn(Swarm([d \in DOMAIN W.drones |->
                              IF W.drones[d].state = "idle"
                              THEN W.drones[d]
                              ELSE [cargo |-> 0, position |-> Origin,
                                    state |-> "idle", routeId |-> NoRoute]],
                           W.nextDroneId), offloaded)

\* returnToHub that leaves the drone where its route put it.
returnToHub_StaysOnRoute(cfg, W, droneId) ==
    IF ~HasDrone(W, droneId)
    THEN WThrow(W, "unknown drone")
    ELSE IF W.drones[droneId].state # "returning"
            /\ W.drones[droneId].state # "collecting"
    THEN WThrow(W, "cannot return")
    ELSE LET offloaded == W.drones[droneId].cargo
         IN  WReturn(Swarm([W.drones EXCEPT
                              ![droneId].cargo = 0,
                              ![droneId].state = "idle",
                              ![droneId].routeId = NoRoute],
                           W.nextDroneId), offloaded)

\* returnToHub that does not clear the drone's route.
returnToHub_KeepsRouteId(cfg, W, droneId) ==
    IF ~HasDrone(W, droneId)
    THEN WThrow(W, "unknown drone")
    ELSE IF W.drones[droneId].state # "returning"
            /\ W.drones[droneId].state # "collecting"
    THEN WThrow(W, "cannot return")
    ELSE LET offloaded == W.drones[droneId].cargo
         IN  WReturn(Swarm([W.drones EXCEPT
                              ![droneId].cargo = 0,
                              ![droneId].position = Origin,
                              ![droneId].state = "idle"],
                           W.nextDroneId), offloaded)

\* SwarmController.returnToHub(droneId)
returnToHub(cfg, W, droneId) ==
    IF ~HasDrone(W, droneId)
    THEN WThrow(W, "unknown drone")
    ELSE IF W.drones[droneId].state # "returning"
            /\ W.drones[droneId].state # "collecting"
    THEN WThrow(W, "cannot return")
    ELSE LET offloaded == W.drones[droneId].cargo
         IN  WReturn(Swarm([W.drones EXCEPT
                              ![droneId] = [cargo |-> 0, position |-> Origin,
                                            state |-> "idle", routeId |-> NoRoute]],
                           W.nextDroneId), offloaded)

\* What the record returned by getDroneStatus shares with the controller.
getDroneStatusShares == SpreadShares(DroneObjectFields)

\* SwarmController.getDroneStatus(droneId): a copy of the record.
getDroneStatus(cfg, W, droneId) ==
    IF ~HasDrone(W, droneId)
    THEN WThrow(W, "unknown drone")
    ELSE WReturn(W, W.drones[droneId])

\* SwarmController.idleCount()
idleCount(cfg, W) ==
    WReturn(W, Cardinality({d \in DOMAIN W.drones : W.drones[d].state = "idle"}))

NoDrone == -1

(***************************************************************************)
(* History kept beside the controller: phase is "failed" once spawnDrone   *)
(* has failed, "returned" once a returnToHub has succeeded after that, and *)
(* "none" before any failure; was is the phase before the last call.       *)
(***************************************************************************)
NoSpawnFailure == [phase |-> "none", was |-> "none"]

SpawnLogAfter(call, out, log) ==
    [was |-> log.phase,
     phase |-> IF call.op = "spawnDrone"
               THEN IF out.ok THEN "none" ELSE "failed"
               ELSE IF call.op = "returnToHub" /\ out.ok /\ log.phase = "failed"
               THEN "returned"
               ELSE log.phase]

\* One call of the SwarmController: the outcome out of call is applied.
WCore(call, out) ==
    /\ drones' = out.drones
    /\ nextDroneId' = out.nextDroneId
    /\ dPrev' = Swarm(drones, nextDroneId)
    /\ dLast' = [op |-> call.op, id |-> call.id, arg |-> call.arg,
                 ok |-> out.ok, ret |-> out.ret, err |-> out.err]
    /\ spawnLog' = SpawnLogAfter(call, out, spawnLog)
    /\ UNCHANGED <<config, structures, sPrev, sLast, buildLog, plannerVars, tickVars>>

\* The call with no ledger kept beside the controller.
WCall(call, out) ==
    /\ WCore(call, out)
    /\ UNCHANGED ledgerVars

\* dispatch and returnToHub give the drone a new position object: a held record
\* that shared the old one shares it no longer.
AfterSwarmCall(snap, call, out) ==
    IF /\ snap.held /\ out.ok /\ call.id = snap.id
       /\ call.op \in {"dispatch", "returnToHub"}
    THEN [snap EXCEPT !.shares = @ \ {"position"}]
    ELSE snap

\* A call whose return value the caller drops.
WStep(call, out) ==
    /\ WCall(call, out)
    /\ snapshot' = AfterSwarmCall(snapshot, call, out)

Now == Swarm(drones, nextDroneId)

SpawnDrone ==
    WStep(Call("spawnDrone", NoDrone, NoValue), spawnDrone(config, Now))

Dispatch ==
    \E d \in DroneIdArgs, r \in RouteIdArgs :
        WStep(Call("dispatch", d, r), dispatch(config, Now, d, r))

\* Cargo is followed down to -5 * MaxDebt, no further.
Collect ==
    \E d \in DroneIdArgs, amount \in AmountArgs :
        LET out == collect(config, Now, d, amount)
        IN  /\ out.ok => out.drones[d].cargo >= 0 - 5 * MaxDebt
            /\ WStep(Call("collect", d, amount), out)

ReturnToHub ==
    \E d \in DroneIdArgs :
        WStep(Call("returnToHub", d, NoValue), returnToHub(config, Now, d))

GetDroneStatus ==
    \E d \in DroneIdArgs :
        WStep(Call("getDroneStatus", d, NoValue), getDroneStatus(config, Now, d))

IdleCount ==
    WStep(Call("idleCount", NoDrone, NoValue), idleCount(config, Now))

SwarmNext ==
    \/ SpawnDrone
    \/ Dispatch
    \/ Collect
    \/ ReturnToHub
    \/ GetDroneStatus
    \/ IdleCount

\* new SwarmController(swarmConfig): no drones, ids start at 0.  No
\* StructureController is in use.
SwarmInit ==
    /\ config \in SwarmConfigs
    /\ drones = EmptyTable
    /\ nextDroneId = 0
    /\ dPrev = Swarm(EmptyTable, 0)
    /\ dLast = NoCall
    /\ spawnLog = NoSpawnFailure
    /\ snapshot = NoSnapshot
    /\ blueprint = NoBlueprint
    /\ pLast = NoCall
    /\ pSeen = EmptyTable
    /\ tLast = NoCall
    /\ tFirst = NoCall
    /\ collected = EmptyTable
    /\ structures = EmptyTable
    /\ sPrev = EmptyTable
    /\ sLast = NoCall
    /\ buildLog = EmptyTable

SwarmSpec == SwarmInit /\ [][SwarmNext]_vars

(***************************************************************************)
(* A caller that keeps what getDroneStatus returned and assigns to it,     *)
(* while the controller goes on.  The fleet is a single drone.             *)
(***************************************************************************)
\* getDroneStatus(droneId) with the result kept by the caller.
KeepDroneStatus ==
    \E d \in DroneIdArgs :
        LET out == getDroneStatus(config, Now, d)
        IN  /\ WCall(Call("getDroneStatus", d, NoValue), out)
            /\ snapshot' = IF out.ok
                           THEN Snapshot(d, out.ret, getDroneStatusShares)
                           ELSE snapshot

\* The caller's step: what it assigned, and the state the controller holds.
CallerWrote(what, D) ==
    /\ drones' = D
    /\ dPrev' = Now
    /\ dLast' = [op |-> "callerWrite", id |-> snapshot.id, arg |-> what,
                 ok |-> TRUE, ret |-> NoValue, err |-> "none"]
    /\ UNCHANGED <<nextDroneId, config, spawnLog, structures, sPrev, sLast, buildLog,
                   plannerVars, tickVars, ledgerVars>>

StatusWrites ==
    { [field |-> "cargo", value |-> 99],
      [field |-> "state", value |-> "idle"],
      [field |-> "routeId", value |-> "route-perimeter"],
      [field |-> "position", value |-> [x |-> 1, y |-> 1, z |-> 1]] }

\* status.field = value, by the caller: the assignment is to the copy, and a
\* position assigned this way is the caller's own object.
WriteStatusField ==
    \E w \in StatusWrites :
        /\ snapshot.held
        /\ snapshot.own[w.field] # w.value
        /\ snapshot' = [snapshot EXCEPT !.rec[w.field] = w.value,
                                        !.own[w.field] = w.value,
                                        !.shares = @ \ {w.field}]
        /\ CallerWrote(w.field, drones)

Axes == {"x", "y", "z"}
WrittenCoordinate == 7

\* status.position.x = 7 (or y, z), by the caller: the assignment is to the
\* position object, which is the drone's own while the copy shares it.
WriteStatusCoordinate ==
    \E axis \in Axes :
        /\ snapshot.held
        /\ snapshot.own.position[axis] # WrittenCoordinate
        /\ snapshot' = [snapshot EXCEPT !.rec.position[axis] = WrittenCoordinate,
                                        !.own.position[axis] = WrittenCoordinate]
        /\ CallerWrote(axis,
                IF "position" \in snapshot.shares
                THEN [drones EXCEPT ![snapshot.id].position[axis] = WrittenCoordinate]
                ELSE drones)

\* The controller's calls name drone-0, and collect takes nothing or a full load.
SnapshotCalls ==
    /\ dLast'.id \in {0, NoDrone}
    /\ dLast'.op = "collect" => dLast'.arg \in {0, 60}

SnapshotSwarmNext ==
    \/ SwarmNext /\ SnapshotCalls
    \/ KeepDroneStatus
    \/ WriteStatusField
    \/ WriteStatusCoordinate

\* new SwarmController(swarmConfig) with maxDrones 1.
SnapshotSwarmInit ==
    /\ config = SwarmConfig(1, 10, 0, 1)
    /\ drones = EmptyTable
    /\ nextDroneId = 0
    /\ dPrev = Swarm(EmptyTable, 0)
    /\ dLast = NoCall
    /\ spawnLog = NoSpawnFailure
    /\ snapshot = NoSnapshot
    /\ blueprint = NoBlueprint
    /\ pLast = NoCall
    /\ pSeen = EmptyTable
    /\ tLast = NoCall
    /\ tFirst = NoCall
    /\ collected = EmptyTable
    /\ structures = EmptyTable
    /\ sPrev = EmptyTable
    /\ sLast = NoCall
    /\ buildLog = EmptyTable

SnapshotSwarmSpec == SnapshotSwarmInit /\ [][SnapshotSwarmNext]_vars

(***************************************************************************)
(* SwarmController: the drone cycle.                                       *)
(***************************************************************************)
\* The drone the last call named, before and after the call.
Target == dLast.id
Before == dPrev.drones[dLast.id]
After == drones[dLast.id]
Succeeded(op) == dLast.op = op /\ dLast.ok
Capacity == config.droneSpec.cargoCapacity

\* C6: a drone's state changes only idle->collecting by a successful dispatch,
\* collecting->returning by a successful collect, and collecting->idle or
\* returning->idle by a successful returnToHub, each on the drone the call
\* names; dispatch succeeds only on an idle drone, collect only on a collecting
\* one, returnToHub only on a collecting or returning one.
C6_OnlyCycleEdges ==
    /\ DOMAIN dPrev.drones \subseteq DOMAIN drones
    /\ \A d \in DOMAIN drones :
        IF d \in DOMAIN dPrev.drones
        THEN LET from == dPrev.drones[d].state
                 to == drones[d].state
             IN  \/ from = to
                 \/ /\ d = Target
                    /\ \/ from = "idle" /\ to = "collecting" /\ Succeeded("dispatch")
                       \/ from = "collecting" /\ to = "returning" /\ Succeeded("collect")
                       \/ from \in {"collecting", "returning"} /\ to = "idle"
                            /\ Succeeded("returnToHub")
        ELSE drones[d].state = "idle" /\ Succeeded("spawnDrone")
    /\ Succeeded("dispatch") =>
        Target \in DOMAIN dPrev.drones /\ Before.state = "idle"
    /\ Succeeded("collect") =>
        Target \in DOMAIN dPrev.drones /\ Before.state = "collecting"
    /\ Succeeded("returnToHub") =>
        Target \in DOMAIN dPrev.drones /\ Before.state \in {"collecting", "returning"}

\* C6 witness: a collect has just turned one drone to returning while another
\* drone of the fleet is out collecting.
C6_Witness ==
    /\ Succeeded("collect")
    /\ Before.state = "collecting" /\ After.state = "returning"
    /\ \E d \in DOMAIN drones : d # Target /\ drones[d].state = "collecting"

\* C7: no drone ever holds more than cargoCapacity.
C7_CargoWithinCapacity ==
    \A d \in DOMAIN drones : drones[d].cargo <= Capacity

\* C7 witness: a collect asked for more than the free space and filled the drone.
C7_Witness ==
    /\ Succeeded("collect")
    /\ Before.cargo > 0
    /\ dLast.arg > Capacity - Before.cargo
    /\ After.cargo = Capacity

\* C8: a successful collect(droneId, amount) returns the amount when it fits in
\* the free space and the free space otherwise, and the cargo grows by exactly
\* the number returned.
C8_CollectAddsClampedAmount ==
    Succeeded("collect") =>
        LET space == Capacity - Before.cargo
        IN  /\ dLast.arg <= space => dLast.ret = dLast.arg
            /\ dLast.arg > space => dLast.ret = space
            /\ After.cargo = Before.cargo + dLast.ret

\* C8 witness: a collect was clamped: it returned less than asked, more than 0.
C8_Witness ==
    /\ Succeeded("collect")
    /\ 0 < dLast.ret /\ dLast.ret < dLast.arg
    /\ Before.cargo # 0

C10_ReturnToHubOffloads ==
    (dLast.op = "returnToHub" /\ Target \in DOMAIN dPrev.drones) =>
        IF Before.state \in {"collecting", "returning"}
        THEN /\ dLast.ok
             /\ dLast.ret = Before.cargo
             /\ After.cargo = 0
             /\ After.position = [x |-> 0, y |-> 0, z |-> 0]
             /\ After.state = "idle"
             /\ After.routeId = NoRoute
        ELSE Before.state = "idle" /\ ~dLast.ok

\* C10 witness: a full drone (50 units) away from the origin has just returned.
C10_Witness ==
    /\ Succeeded("returnToHub")
    /\ Before.state = "returning"
    /\ Before.position # Origin
    /\ dLast.ret = 50

(***************************************************************************)
(* SwarmController: dispatch, the fleet bound, ids, failures.              *)
(***************************************************************************)
Known == Target \in DOMAIN dPrev.drones
FleetBefore == Cardinality(DOMAIN dPrev.drones)
Configured(routeId) == \E i \in 1..Len(config.patrolRoutes) : config.patrolRoutes[i].id = routeId

\* C11: dispatch(droneId, routeId) succeeds exactly when the drone exists, is
\* idle and routeId is a configured route; it then leaves the drone collecting,
\* on that route, at the route's first waypoint, with its cargo unchanged.
C11_DispatchContract ==
    dLast.op = "dispatch" =>
        /\ dLast.ok <=> (Known /\ Before.state = "idle" /\ Configured(dLast.arg))
        /\ dLast.ok =>
            /\ After.state = "collecting"
            /\ After.routeId = dLast.arg
            /\ \E i \in 1..Len(config.patrolRoutes) :
                /\ config.patrolRoutes[i].id = dLast.arg
                /\ After.position = Head(config.patrolRoutes[i].waypoints)
            /\ After.cargo = Before.cargo

\* C11 witness: a drone was just dispatched to the two-waypoint route and
\* stands at (-50, 0, 0), while another drone is already out.
C11_Witness ==
    /\ Succeeded("dispatch")
    /\ dLast.arg = "route-intake-sweep"
    /\ After.position = [x |-> -50, y |-> 0, z |-> 0]
    /\ \E d \in DOMAIN drones : d # Target /\ drones[d].state = "returning"

\* C12: the fleet never exceeds maxDrones; spawnDrone succeeds exactly when the
\* fleet is smaller than maxDrones, and the new drone is idle, empty, at the
\* origin, with no route.
C12_FleetBound ==
    /\ Cardinality(DOMAIN drones) <= config.maxDrones
    /\ dLast.op = "spawnDrone" =>
        /\ dLast.ok <=> FleetBefore < config.maxDrones
        /\ dLast.ok =>
            /\ Cardinality(DOMAIN drones) = FleetBefore + 1
            /\ drones[dLast.ret].cargo = 0
            /\ drones[dLast.ret].position = [x |-> 0, y |-> 0, z |-> 0]
            /\ drones[dLast.ret].state = "idle"
            /\ drones[dLast.ret].routeId = NoRoute

\* C12 witness: maxDrones >= 2 spawns succeeded and the next one has just failed.
C12_Witness ==
    /\ dLast.op = "spawnDrone" /\ ~dLast.ok
    /\ FleetBefore = config.maxDrones
    /\ config.maxDrones >= 2

\* C13: the k-th successful spawnDrone returns drone-(k-1): the ids in use are
\* 0 .. fleet size - 1, a spawn returns the fleet size before it, an id not in
\* use, and adds only that id; a failed spawn leaves the next id as it was.
C13_IdsSequential ==
    /\ DOMAIN drones = 0..(Cardinality(DOMAIN drones) - 1)
    /\ nextDroneId = Cardinality(DOMAIN drones)
    /\ Succeeded("spawnDrone") =>
        /\ dLast.ret = FleetBefore
        /\ dLast.ret \notin DOMAIN dPrev.drones
        /\ DOMAIN drones = DOMAIN dPrev.drones \cup {dLast.ret}
    /\ (dLast.op = "spawnDrone" /\ ~dLast.ok) => nextDroneId = dPrev.nextDroneId

\* C13 witness: the second spawn has just returned drone-1.
C13_Witness ==
    /\ Succeeded("spawnDrone")
    /\ dLast.ret = 1
    /\ DOMAIN drones = {0, 1}

\* Why the SwarmController call made last must fail, if it must.
SwarmMustFail ==
    \/ dLast.op = "spawnDrone" /\ FleetBefore >= config.maxDrones
    \/ dLast.op \in {"dispatch", "collect", "returnToHub", "getDroneStatus"} /\ ~Known
    \/ dLast.op = "dispatch" /\ Known /\ Before.state # "idle"
    \/ dLast.op = "dispatch" /\ ~Configured(dLast.arg)
    \/ dLast.op = "collect" /\ Known /\ Before.state # "collecting"
    \/ dLast.op = "returnToHub" /\ Known /\ Before.state = "idle"

\* C16: spawnDrone at capacity, dispatch of a non-idle drone or to an
\* unconfigured route, collect off collecting, returnToHub on an idle drone and
\* every call naming an unknown drone fail, and a failed call leaves every
\* drone, the fleet and the next id as they were.
C16_SwarmFailureLeavesStateUnchanged ==
    /\ SwarmMustFail => ~dLast.ok
    /\ ~dLast.ok => (drones = dPrev.drones /\ nextDroneId = dPrev.nextDroneId)

\* C16 witness: spawnDrone has just failed at capacity while a drone is loaded.
C16_Witness ==
    /\ dLast.op = "spawnDrone" /\ ~dLast.ok
    /\ \E d \in DOMAIN drones : drones[d].cargo > 0

\* C14 as claimed: once spawnDrone has failed at capacity and a drone has then
\* completed returnToHub, the next spawnDrone succeeds.
C14_Claimed_RetryAfterReturnSucceeds ==
    (dLast.op = "spawnDrone" /\ spawnLog.was = "returned") => dLast.ok

\* C14: once spawnDrone has failed at capacity every later spawnDrone fails
\* too, also after drones have completed returnToHub: returnToHub keeps the
\* drone in the fleet and nothing removes one.
C14_NoSlotIsEverFreed ==
    /\ (dLast.op = "spawnDrone" /\ spawnLog.was # "none") => ~dLast.ok
    /\ Succeeded("returnToHub") =>
        (Target \in DOMAIN drones /\ DOMAIN drones = DOMAIN dPrev.drones)

\* C14 witness: spawnDrone was retried right after a failure and a completed
\* returnToHub, with every drone of the fleet idle at the hub.
C14_Witness ==
    /\ dLast.op = "spawnDrone"
    /\ spawnLog.was = "returned"
    /\ \A d \in DOMAIN drones : drones[d].state = "idle"

\* C15 as claimed: collect and returnToHub never return a negative amount and
\* no drone's cargo is ever below 0, whatever amount collect is given.
C15_Claimed_AmountsNeverNegative ==
    /\ \A d \in DOMAIN drones : drones[d].cargo >= 0
    /\ Succeeded("collect") => dLast.ret >= 0
    /\ Succeeded("returnToHub") => dLast.ret >= 0

(***************************************************************************)
(* Records handed out by getState.                                         *)
(***************************************************************************)
\* C18: the record returned by getState is detached: a caller assigning to its
\* state, tier or ticksRemaining leaves the controller's table as it was, and
\* what the caller reads from it is what the caller got and wrote, whatever the
\* controller does to the facility later.
C18_GetStateIsDetached ==
    /\ sLast.op = "callerWrite" => structures = sPrev
    /\ snapshot.held => snapshot.rec = snapshot.own

\* C18 witness: the caller took the record while the facility was BUILDING, the
\* controller completed the build, and the caller has just written a tier.
C18_Witness ==
    /\ snapshot.held
    /\ sLast.op = "callerWrite" /\ sLast.arg = "tier"
    /\ snapshot.rec.state = BUILDING
    /\ structures[snapshot.id].state = OPERATIONAL
    /\ structures[snapshot.id].tier # snapshot.rec.tier

(***************************************************************************)
(* Records handed out by getDroneStatus.                                   *)
(***************************************************************************)
\* C17: the record returned by getDroneStatus is detached: a caller assigning
\* to any part of it, the x/y/z inside its position included, leaves the drones
\* the controller holds (and so what it reports afterwards) as they were.
C17_Claimed_GetDroneStatusIsDetached ==
    dLast.op = "callerWrite" => drones = dPrev.drones

(***************************************************************************)
(* PlannerController: the route of a resource type through the blueprint's *)
(* zones and the throughput of that route.                                 *)
(*                                                                         *)
(* A zone's structures are a sequence in the order of the blueprint (the   *)
(* insertion order of structuresById).  The result of a find is a sequence *)
(* of no element (nothing found) or of the one structure found.            *)
(***************************************************************************)
\* let throughput = Infinity: above every throughput, rate and bandwidth of
\* the blueprints below.
Infinity == 1000000

\* A structure of a zone; a field the blueprint does not give reads as
\* undefined, an absent list as the empty list.
Structure(id, type) ==
    [id |-> id, type |-> type, throughput |-> 0, rate |-> 0, from |-> NoValue,
     inputTypes |-> <<>>, outputTypes |-> <<>>, storedType |-> NoValue, maxUnits |-> 0]

Dock(id, throughput) ==
    [Structure(id, "dock") EXCEPT !.throughput = throughput]
Conveyor(id, from, rate) ==
    [Structure(id, "conveyor") EXCEPT !.from = from, !.rate = rate]
Processor(id, type, inputTypes, outputTypes) ==
    [Structure(id, type) EXCEPT !.inputTypes = inputTypes, !.outputTypes = outputTypes]
Store(id, type, storedType, maxUnits) ==
    [Structure(id, type) EXCEPT !.storedType = storedType, !.maxUnits = maxUnits]
Connection(from, to, bandwidth) ==
    [from |-> from, to |-> to, bandwidth |-> bandwidth]

ZoneIds == {"intake-zone", "processing-zone", "storage-zone", "distribution-zone"}
ResourceTypes == {"raw-ore", "crystal-shard", "scrap"}

\* Each layout is no element (the blueprint has no such zone) or the zone's
\* structures.
IntakeLayouts ==
    { <<>>,
      << <<Conveyor("conveyor-main", "intake-dock-1", 80)>> >>,
      << <<Dock("intake-dock-1", 80)>> >>,
      << <<Dock("intake-dock-1", 80), Conveyor("conveyor-main", "intake-dock-1", 80)>> >>,
      << <<Conveyor("conveyor-main", "intake-dock-1", 60), Dock("intake-dock-1", 80)>> >>,
      << <<Dock("intake-dock-1", 80), Dock("intake-dock-2", 40),
           Conveyor("conveyor-aux", "intake-dock-2", 20),
           Conveyor("conveyor-main", "intake-dock-1", 60)>> >>,
      << <<Dock("intake-dock-1", 80), Conveyor("conveyor-aux", "intake-dock-2", 20)>> >> }

ProcessingLayouts ==
    { <<>>,
      << <<Processor("refinery-primary", "refinery", <<"raw-ore", "crystal-shard">>,
                     <<"refined-ore", "crystal-dust">>)>> >>,
      << <<Processor("smelter-1", "smelter", <<"raw-ore">>, <<"refined-ore">>),
           Processor("refinery-crystal", "refinery", <<"crystal-shard">>, <<"crystal-dust">>),
           Processor("refinery-primary", "refinery", <<"raw-ore", "crystal-shard">>,
                     <<"refined-ore", "crystal-dust">>)>> >>,
      << <<Processor("refinery-primary", "refinery", <<"raw-ore", "crystal-shard">>,
                     <<"refined-ore">>)>> >>,
      << <<Processor("smelter-1", "smelter", <<"raw-ore">>, <<"refined-ore">>),
           Processor("refinery-crystal", "refinery", <<"crystal-shard">>, <<"crystal-dust">>)>> >> }

StorageLayouts ==
    { <<>>,
      << <<Store("silo-raw", "silo", "raw-ore", 800),
           Store("silo-refined", "silo", "refined-ore", 600),
           Store("vault-crystal", "vault", "crystal-dust", 400),
           Store("silo-overflow", "silo", "refined-ore", 200)>> >>,
      << <<Store("tank-refined", "tank", "refined-ore", 300),
           Store("silo-refined", "silo", "refined-ore", 0)>> >>,
      << <<Store("vault-crystal", "vault", "crystal-dust", 400)>> >> }

DistributionLayouts ==
    { <<>>,
      << <<Dock("export-dock-1", 100)>> >>,
      << <<Structure("pad-1", "pad"), Dock("export-dock-1", 50)>> >> }

ConnectionLists ==
    { <<>>,
      <<Connection("intake-zone", "processing-zone", 100),
        Connection("processing-zone", "storage-zone", 90)>>,
      <<Connection("intake-zone", "processing-zone", 100),
        Connection("storage-zone", "annex-zone", 30)>>,
      <<Connection("annex-zone", "depot-zone", 10)>> }

\* _index(bp): zones by id, each with its structures; the connections.
Index(intake, processing, storage, distribution, connections) ==
    LET layout == [z \in ZoneIds |->
                      CASE z = "intake-zone" -> intake
                        [] z = "processing-zone" -> processing
                        [] z = "storage-zone" -> storage
                        [] z = "distribution-zone" -> distribution]
    IN  [zones |-> [z \in {y \in ZoneIds : layout[y] # <<>>} |-> layout[z][1]],
         connections |-> connections]

Blueprints ==
    { Index(i, p, s, d, c) : i \in IntakeLayouts, p \in ProcessingLayouts,
                             s \in StorageLayouts, d \in DistributionLayouts,
                             c \in ConnectionLists }

\* [...values].find(test), hits being the places of the values that pass the
\* test: the first of them in order.
Find(values, hits) ==
    IF hits = {}
    THEN <<>>
    ELSE <<values[CHOOSE i \in hits : \A j \in hits : i <= j]>>

\* zone ? [...zone.structuresById.values()] : null; in a zone the blueprint
\* does not have, nothing is found.
ValuesOf(bp, zoneId) ==
    IF zoneId \in DOMAIN bp.zones THEN bp.zones[zoneId] ELSE <<>>

\* list.indexOf(x): the 0-based index of the first x, -1 when there is none.
IndexOf(list, x) ==
    LET hits == {i \in DOMAIN list : list[i] = x}
    IN  IF hits = {} THEN -1 ELSE (CHOOSE i \in hits : \A j \in hits : i <= j) - 1

\* list[k], 0-based: undefined beyond the end.
ElementAt(list, k) == IF k + 1 \in DOMAIN list THEN list[k + 1] ELSE NoValue

\* if (found) route.push(found.id)
Pushed(found) == IF found = <<>> THEN <<>> ELSE <<found[1].id>>

\* Stage 1 and stage 5: the first dock of the zone.
FindDock(bp, zoneId) ==
    LET values == ValuesOf(bp, zoneId)
    IN  Find(values, {i \in DOMAIN values : values[i].type = "dock"})

\* A conveyor of the intake zone, from whichever dock.
FindConveyor_AnyDock(bp, dock) ==
    LET values == ValuesOf(bp, "intake-zone")
    IN  Find(values, {i \in DOMAIN values : values[i].type = "conveyor"})

\* Stage 2: the first conveyor of the intake zone that leaves the dock.
FindConveyor(bp, dock) ==
    LET values == ValuesOf(bp, "intake-zone")
    IN  Find(values, {i \in DOMAIN values :
                        values[i].type = "conveyor" /\ values[i].from = dock.id})

\* Stage 3: the first refinery that takes resourceType.
FindRefinery(bp, resourceType) ==
    LET values == ValuesOf(bp, "processing-zone")
    IN  Find(values, {i \in DOMAIN values :
                        /\ values[i].type = "refinery"
                        /\ IndexOf(values[i].inputTypes, resourceType) >= 0})

\* The refinery's first output type, whatever the place of resourceType.
OutputType_FirstOutput(refinery, resourceType) ==
    IF refinery = <<>>
    THEN resourceType
    ELSE ElementAt(refinery[1].outputTypes, 0)

\* What the refinery found makes of resourceType; resourceType itself without
\* a refinery.
OutputType(refinery, resourceType) ==
    IF refinery = <<>>
    THEN resourceType
    ELSE LET inputIdx == IndexOf(refinery[1].inputTypes, resourceType)
         IN  IF inputIdx >= 0 /\ inputIdx < Len(refinery[1].outputTypes)
             THEN ElementAt(refinery[1].outputTypes, inputIdx)
             ELSE ElementAt(refinery[1].outputTypes, 0)

\* The storage stage run only behind a refinery.
FindStorage_NeedsRefinery(bp, refinery, resourceType) ==
    LET values == ValuesOf(bp, "storage-zone")
    IN  IF refinery = <<>>
        THEN <<>>
        ELSE Find(values, {i \in DOMAIN values :
                             /\ values[i].type \in {"silo", "vault"}
                             /\ values[i].storedType = OutputType(refinery, resourceType)})

\* Stage 4: the first silo or vault that stores the output type.
FindStorage(bp, refinery, resourceType) ==
    LET values == ValuesOf(bp, "storage-zone")
    IN  Find(values, {i \in DOMAIN values :
                        /\ values[i].type \in {"silo", "vault"}
                        /\ values[i].storedType = OutputType(refinery, resourceType)})

\* Clamping by the connections that leave the intake zone only.
ClampByConnections_IntakeOnly(throughput, connections) ==
    LET RECURSIVE clamp(_, _)
        clamp(value, k) ==
            IF k > Len(connections)
            THEN value
            ELSE clamp(IF connections[k].from = "intake-zone"
                       THEN Min(value, connections[k].bandwidth)
                       ELSE value, k + 1)
    IN  clamp(throughput, 1)

\* for (const conn of this.connections) throughput = Math.min(throughput, conn.bandwidth)
ClampByConnections(throughput, connections) ==
    LET RECURSIVE clamp(_, _)
        clamp(value, k) ==
            IF k > Len(connections)
            THEN value
            ELSE clamp(Min(value, connections[k].bandwidth), k + 1)
    IN  clamp(throughput, 1)

\* PlannerController.planRoute(resourceType)
planRoute(bp, resourceType) ==
    LET dock == FindDock(bp, "intake-zone")
    IN  IF dock = <<>>
        THEN [route |-> <<>>, throughput |-> 0]
        ELSE LET conveyor == FindConveyor(bp, dock[1])
                 refinery == FindRefinery(bp, resourceType)
                 silo == FindStorage(bp, refinery, resourceType)
                 outDock == FindDock(bp, "distribution-zone")
                 atDock == Min(Infinity, dock[1].throughput)
                 atConveyor == IF conveyor = <<>>
                               THEN atDock
                               ELSE Min(atDock, conveyor[1].rate)
                 atOutDock == IF outDock = <<>>
                              THEN atConveyor
                              ELSE Min(atConveyor, outDock[1].throughput)
             IN  [route |-> Pushed(dock) \o Pushed(conveyor) \o Pushed(refinery)
                              \o Pushed(silo) \o Pushed(outDock),
                  throughput |-> ClampByConnections(atOutDock, bp.connections)]

\* The capacity of the silos and vaults only.
totalStorageCapacity_SilosAndVaults(bp) ==
    IF "storage-zone" \notin DOMAIN bp.zones
    THEN 0
    ELSE LET values == bp.zones["storage-zone"]
             RECURSIVE total(_)
             total(k) ==
                 IF k = 0
                 THEN 0
                 ELSE total(k - 1)
                        + (IF values[k].type \in {"silo", "vault"}
                           THEN values[k].maxUnits ELSE 0)
         IN  total(Len(values))

\* PlannerController.totalStorageCapacity()
totalStorageCapacity(bp) ==
    IF "storage-zone" \notin DOMAIN bp.zones
    THEN 0
    ELSE LET values == bp.zones["storage-zone"]
             RECURSIVE total(_)
             total(k) ==
                 IF k = 0
                 THEN 0
                 ELSE total(k - 1)
                        + (IF values[k].maxUnits # 0 THEN values[k].maxUnits ELSE 0)
         IN  total(Len(values))

\* planRoute taking the dock it finds out of the intake zone.
planRouteLeaves_TakesDock(bp, resourceType) ==
    IF FindDock(bp, "intake-zone") = <<>>
    THEN bp
    ELSE [bp EXCEPT !.zones["intake-zone"] =
             SelectSeq(@, LAMBDA s : s # FindDock(bp, "intake-zone")[1])]

\* The zones and connections after planRoute(resourceType): it assigns to its
\* locals route and throughput only, and spreads the values into new arrays.
planRouteLeaves(bp, resourceType) == bp

\* The zones and connections after totalStorageCapacity(): it assigns to its
\* local total only.
totalStorageCapacityLeaves(bp) == bp

\* The first result of each call made so far.
SeenAfter(op, arg, ret, seen) ==
    IF <<op, arg>> \in DOMAIN seen
    THEN seen
    ELSE [k \in DOMAIN seen \cup {<<op, arg>>} |->
             IF k = <<op, arg>> THEN ret ELSE seen[k]]

\* One call of the PlannerController: what it returned and what it left.
PStep(op, arg, ret, after) ==
    /\ blueprint' = after
    /\ pLast' = [op |-> op, id |-> NoValue, arg |-> arg,
                 ok |-> TRUE, ret |-> ret, err |-> "none",
                 repeat |-> <<op, arg>> \in DOMAIN pSeen]
    /\ pSeen' = SeenAfter(op, arg, ret, pSeen)
    /\ UNCHANGED <<structVars, swarmVars, snapshot, tickVars, ledgerVars>>

PlanRoute ==
    \E resourceType \in ResourceTypes :
        PStep("planRoute", resourceType, planRoute(blueprint, resourceType),
              planRouteLeaves(blueprint, resourceType))

TotalStorageCapacity ==
    PStep("totalStorageCapacity", NoValue, totalStorageCapacity(blueprint),
          totalStorageCapacityLeaves(blueprint))

PlannerNext ==
    \/ PlanRoute
    \/ TotalStorageCapacity

\* new PlannerController(blueprint).  No other controller is in use.
PlannerInit ==
    /\ blueprint \in Blueprints
    /\ pLast = NoCall
    /\ pSeen = EmptyTable
    /\ tLast = NoCall
    /\ tFirst = NoCall
    /\ collected = EmptyTable
    /\ structures = EmptyTable
    /\ sPrev = EmptyTable
    /\ sLast = NoCall
    /\ buildLog = EmptyTable
    /\ config = NoValue
    /\ drones = EmptyTable
    /\ nextDroneId = 0
    /\ dPrev = Swarm(EmptyTable, 0)
    /\ dLast = NoCall
    /\ spawnLog = NoSpawnFailure
    /\ snapshot = NoSnapshot

PlannerSpec == PlannerInit /\ [][PlannerNext]_vars

(***************************************************************************)
(* PlannerController: what planRoute returns.                              *)
(***************************************************************************)
\* The structures of a zone of the blueprint, none when it has no such zone.
InZone(zoneId) ==
    IF zoneId \in DOMAIN blueprint.zones THEN blueprint.zones[zoneId] ELSE <<>>

\* The places, in a zone, of the structures of the given types.
PlacesOf(zoneId, types) ==
    {i \in DOMAIN InZone(zoneId) : InZone(zoneId)[i].type \in types}

Lowest(S) == CHOOSE x \in S : \A y \in S : x <= y

Planned == pLast.op = "planRoute"
Wanted == pLast.arg
Route == pLast.ret.route
Throughput == pLast.ret.throughput

IntakeDock == InZone("intake-zone")[Lowest(PlacesOf("intake-zone", {"dock"}))]
HasIntakeDock == PlacesOf("intake-zone", {"dock"}) # {}

\* The conveyors of the intake zone that leave the intake dock.
ConveyorPlaces ==
    {i \in PlacesOf("intake-zone", {"conveyor"}) :
        InZone("intake-zone")[i].from = IntakeDock.id}

\* The refineries whose input types include the wanted resource type.
RefineryPlaces ==
    {i \in PlacesOf("processing-zone", {"refinery"}) :
        \E k \in DOMAIN InZone("processing-zone")[i].inputTypes :
            InZone("processing-zone")[i].inputTypes[k] = Wanted}

\* The type to store: the chosen refinery's output at the place of the wanted
\* type among its inputs (its first output when it has no such place), the
\* wanted type itself without a refinery.
StoredAs ==
    IF RefineryPlaces = {}
    THEN Wanted
    ELSE LET refinery == InZone("processing-zone")[Lowest(RefineryPlaces)]
             k == Lowest({j \in DOMAIN refinery.inputTypes :
                             refinery.inputTypes[j] = Wanted})
         IN  IF k \in DOMAIN refinery.outputTypes
             THEN refinery.outputTypes[k]
             ELSE refinery.outputTypes[1]

StoragePlaces ==
    {i \in PlacesOf("storage-zone", {"silo", "vault"}) :
        InZone("storage-zone")[i].storedType = StoredAs}

OutDockPlaces == PlacesOf("distribution-zone", {"dock"})

\* The stop a stage adds: the id of its first match, nothing without a match.
Stop(zoneId, places) ==
    IF places = {} THEN <<>> ELSE <<InZone(zoneId)[Lowest(places)].id>>

\* C19: without a dock in the intake zone planRoute returns an empty route and
\* throughput 0; otherwise the throughput is the least of the intake dock's
\* throughput, the rate of the conveyor leaving that dock (if any), the
\* distribution dock's throughput (if any) and the bandwidth of every
\* connection of the blueprint, traversed or not; refinery and silo do not
\* count.
C19_ThroughputIsBackboneMinimum ==
    Planned =>
        IF ~HasIntakeDock
        THEN Route = <<>> /\ Throughput = 0
        ELSE LET limits ==
                     {IntakeDock.throughput}
                     \cup {InZone("intake-zone")[i].rate :
                              i \in IF ConveyorPlaces = {} THEN {}
                                    ELSE {Lowest(ConveyorPlaces)}}
                     \cup {InZone("distribution-zone")[i].throughput :
                              i \in IF OutDockPlaces = {} THEN {}
                                    ELSE {Lowest(OutDockPlaces)}}
                     \cup {blueprint.connections[i].bandwidth :
                              i \in DOMAIN blueprint.connections}
             IN  Throughput = Lowest(limits)

\* C19 witness: a route through refinery and silo whose throughput is the
\* bandwidth of a connection between two zones the route does not enter, lower
\* than the dock's, the conveyor's and the distribution dock's.
C19_Witness ==
    /\ Planned /\ HasIntakeDock
    /\ Len(Route) = 5
    /\ \E i \in DOMAIN blueprint.connections :
        /\ blueprint.connections[i].from \notin ZoneIds
        /\ blueprint.connections[i].to \notin ZoneIds
        /\ Throughput = blueprint.connections[i].bandwidth
    /\ Throughput < IntakeDock.throughput
    /\ Throughput < InZone("intake-zone")[Lowest(ConveyorPlaces)].rate
    /\ Throughput < InZone("distribution-zone")[Lowest(OutDockPlaces)].throughput

\* C20: a non-empty route is, in this order, the intake dock, the conveyor
\* leaving that dock if any, the first refinery taking the resource type if
\* any, the matching silo or vault if any, the distribution dock if any: a
\* stage without a match is skipped and the later stages still run, so the
\* route has 1 to 5 stops, and all five when every stage has a match.
C20_RouteIsTheFiveStagesInOrder ==
    (Planned /\ Route # <<>>) =>
        /\ HasIntakeDock
        /\ Route = <<IntakeDock.id>>
                     \o Stop("intake-zone", ConveyorPlaces)
                     \o Stop("processing-zone", RefineryPlaces)
                     \o Stop("storage-zone", StoragePlaces)
                     \o Stop("distribution-zone", OutDockPlaces)
        /\ Len(Route) \in 1..5
        /\ ( /\ ConveyorPlaces # {} /\ RefineryPlaces # {}
             /\ StoragePlaces # {} /\ OutDockPlaces # {} ) => Len(Route) = 5

\* C20 witness: the intake zone has a conveyor, but of another dock, and there
\* is no refinery for the resource type; the route still goes on to a silo and
\* the distribution dock.
C20_Witness ==
    /\ Planned /\ HasIntakeDock
    /\ PlacesOf("intake-zone", {"conveyor"}) # {} /\ ConveyorPlaces = {}
    /\ RefineryPlaces = {}
    /\ Len(Route) = 3
    /\ Route[2] = InZone("storage-zone")[Lowest(StoragePlaces)].id
    /\ Route[3] = InZone("distribution-zone")[Lowest(OutDockPlaces)].id

\* The ids of the structures of the storage zone, and where the route has one.
StorageIds == {InZone("storage-zone")[i].id : i \in DOMAIN InZone("storage-zone")}
StorageStops == {j \in DOMAIN Route : Route[j] \in StorageIds}

\* C21: when planRoute finds a refinery taking resourceType, the storage stop
\* is the first silo or vault of the storage zone whose storedType is the
\* refinery's output type at the place resourceType has among its input types
\* (its first output type when the output list is shorter), directly after the
\* refinery; without such a silo or vault the route has no storage stop.
C21_StorageFollowsRefineryOutput ==
    (Planned /\ HasIntakeDock /\ RefineryPlaces # {}) =>
        LET refinery == InZone("processing-zone")[Lowest(RefineryPlaces)]
            place == Lowest({k \in DOMAIN refinery.inputTypes :
                                refinery.inputTypes[k] = Wanted})
            outputType == IF place <= Len(refinery.outputTypes)
                          THEN refinery.outputTypes[place]
                          ELSE refinery.outputTypes[1]
            matches == {i \in DOMAIN InZone("storage-zone") :
                           /\ InZone("storage-zone")[i].type \in {"silo", "vault"}
                           /\ InZone("storage-zone")[i].storedType = outputType}
        IN  IF matches = {}
            THEN StorageStops = {}
            ELSE \E j \in DOMAIN Route :
                    /\ StorageStops = {j}
                    /\ Route[j] = InZone("storage-zone")[Lowest(matches)].id
                    /\ j > 1 /\ Route[j - 1] = refinery.id

\* C21 witness: crystal-shard is the second input of a refinery with one output
\* type, refined-ore; the storage zone begins with a tank of refined-ore, and
\* the route stops at the silo behind it.
C21_Witness ==
    /\ Planned /\ HasIntakeDock /\ RefineryPlaces # {}
    /\ Wanted = "crystal-shard"
    /\ Len(InZone("processing-zone")[Lowest(RefineryPlaces)].outputTypes) = 1
    /\ InZone("storage-zone") # <<>>
    /\ InZone("storage-zone")[1].type = "tank"
    /\ \E j \in DOMAIN Route : Route[j] = "silo-refined"

\* The sum of maxUnits over the structures at the given places of the storage
\* zone; a structure that declares none adds nothing.
RECURSIVE UnitsAt(_)
UnitsAt(places) ==
    IF places = {}
    THEN 0
    ELSE LET i == Lowest(places)
         IN  InZone("storage-zone")[i].maxUnits + UnitsAt(places \ {i})

Declaring == {i \in DOMAIN InZone("storage-zone") : InZone("storage-zone")[i].maxUnits # 0}

Limb == 2^30

Double(hi, lo) == [hi |-> hi, lo |-> lo]

\* The literals 0, 0.1, 0.5, 1.0 and 2 as the doubles they denote: 0.1 is
\* 7205759403792794 * 2^-56.
Zero == Double(0, 0)
Tenth == Double(6710886, 429496730)
Half == Double(33554432, 0)
One == Double(67108864, 0)
Two == Double(134217728, 0)

\* The number of binary digits of h.
BitLength(h) ==
    IF h = 0 THEN 0 ELSE CHOOSE n \in 1..30 : 2^(n - 1) <= h /\ h < 2^n

\* The double nearest to the number n, ties to the even one: a double has 53
\* binary digits, 23 of them in hi when hi has more.
Round53(n) ==
    LET drop == IF BitLength(n.hi) > 23 THEN BitLength(n.hi) - 23 ELSE 0
        unit == 2^drop
        rest == n.lo % unit
        odd == (n.lo \div unit) % 2 = 1
        up == rest * 2 > unit \/ (rest * 2 = unit /\ odd)
        lo == n.lo - rest + (IF up THEN unit ELSE 0)
    IN  IF drop = 0
        THEN n
        ELSE IF lo = Limb THEN Double(n.hi + 1, 0) ELSE Double(n.hi, lo)

\* The sum of a and b as a number, before rounding.
ExactSum(a, b) ==
    Double(a.hi + b.hi + (a.lo + b.lo) \div Limb, (a.lo + b.lo) % Limb)

\* a + b in JavaScript.
FAdd(a, b) == Round53(ExactSum(a, b))

\* k * a in JavaScript, k a whole number: the product as a number, rounded.
RECURSIVE ExactTimes(_, _)
ExactTimes(k, a) == IF k = 0 THEN Zero ELSE ExactSum(ExactTimes(k - 1, a), a)
FTimes(k, a) == Round53(ExactTimes(k, a))

\* The keys of CAPABILITIES.
CAPABILITIES ==
    {"POWER_GENERATION", "HABITATION", "LIGHTING", "AESTHETIC", "WAYFINDING",
     "STORAGE", "TRANSPORT"}

\* createRng(seed): the generator's state s = seed | 0, the seeds being 32-bit
\* integers.
createRng(seed) == [s |-> seed]

\* LIGHTING that is lit by the sector's power, not the primitive's own.
CapTick_LightingReadsSector(capName, primitive, sectorState, rng) ==
    CASE capName = "POWER_GENERATION" -> [power_delta |-> primitive.sim.power_generation]
      [] capName = "LIGHTING" ->
            [light_level_delta |-> IF sectorState.power > 0 THEN One ELSE Zero]
      [] capName = "AESTHETIC" -> [morale_delta |-> Tenth]
      [] capName = "WAYFINDING" ->
            [visibility_score_delta |-> primitive.sim.visibility_score]
      [] OTHER -> EmptyTable

\* AESTHETIC worth a whole point of morale.
CapTick_WholeMorale(capName, primitive, sectorState, rng) ==
    CASE capName = "POWER_GENERATION" -> [power_delta |-> primitive.sim.power_generation]
      [] capName = "LIGHTING" ->
            [light_level_delta |->
                IF primitive.sim.power_consumption # Zero THEN One ELSE Zero]
      [] capName = "AESTHETIC" -> [morale_delta |-> One]
      [] capName = "WAYFINDING" ->
            [visibility_score_delta |-> primitive.sim.visibility_score]
      [] OTHER -> EmptyTable

\* CAPABILITIES[capName].tick(primitive, sectorState, rng): the partial result.
\* HABITATION, STORAGE and TRANSPORT return {}.  No hook calls rng.
CapTick(capName, primitive, sectorState, rng) ==
    CASE capName = "POWER_GENERATION" -> [power_delta |-> primitive.sim.power_generation]
      [] capName = "LIGHTING" ->
            [light_level_delta |->
                IF primitive.sim.power_consumption # Zero THEN One ELSE Zero]
      [] capName = "AESTHETIC" -> [morale_delta |-> Tenth]
      [] capName = "WAYFINDING" ->
            [visibility_score_delta |-> primitive.sim.visibility_score]
      [] OTHER -> EmptyTable

\* for (const [key, value] of Object.entries(result)) if (key in output) output[key] += value
Merge(output, result) ==
    [key \in DOMAIN output |->
        IF key \in DOMAIN result THEN FAdd(output[key], result[key]) ELSE output[key]]

ZeroOutput ==
    [power_delta |-> Zero, power_consumed |-> Zero, light_level_delta |-> Zero,
     morale_delta |-> Zero, visibility_score_delta |-> Zero]

\* An accumulator kept by the module: a call starts from what the last left.
NewOutput_KeptByModule(last) ==
    IF last.op = "tick" /\ last.ok THEN last.ret ELSE ZeroOutput

\* const output = { power_delta: 0, ... }: a new object in every call, whatever
\* the call before it returned.
NewOutput(last) == ZeroOutput

\* A tick that returned its output / that threw, and the arguments as the call
\* left them.
TReturn(output, placedPrimitives, sectorState) ==
    [ok |-> TRUE, ret |-> output, err |-> "none",
     left |-> [placedPrimitives |-> placedPrimitives, sectorState |-> sectorState]]
TThrow(err, placedPrimitives, sectorState) ==
    [ok |-> FALSE, ret |-> NoValue, err |-> err,
     left |-> [placedPrimitives |-> placedPrimitives, sectorState |-> sectorState]]

\* A registry that answers every name, with a hook that returns {}.
IsUnknown_Never(capName) == FALSE

\* const cap = CAPABILITIES[capName]; if (!cap)
IsUnknown(capName) == capName \notin CAPABILITIES

\* The inner loop of tick over primitive.capabilities, from the k-th on: the
\* output after it, or the name it threw at.
RECURSIVE RunHooks(_, _, _, _, _)
RunHooks(output, primitive, sectorState, rng, k) ==
    IF k > Len(primitive.capabilities)
    THEN [ok |-> TRUE, output |-> output, err |-> "none"]
    ELSE LET capName == primitive.capabilities[k]
         IN  IF IsUnknown(capName)
             THEN [ok |-> FALSE, output |-> output, err |-> "Unknown capability"]
             ELSE RunHooks(Merge(output, CapTick(capName, primitive, sectorState, rng)),
                           primitive, sectorState, rng, k + 1)

\* The outer loop of tick over placedPrimitives, from the i-th on.
RECURSIVE RunPrimitives(_, _, _, _, _)
RunPrimitives(output, placedPrimitives, sectorState, rng, i) ==
    IF i > Len(placedPrimitives)
    THEN TReturn(output, placedPrimitives, sectorState)
    ELSE LET primitive == placedPrimitives[i]
             consumed == [output EXCEPT !.power_consumed =
                             FAdd(@, primitive.sim.power_consumption)]
             hooks == RunHooks(consumed, primitive, sectorState, rng, 1)
         IN  IF hooks.ok
             THEN RunPrimitives(hooks.output, placedPrimitives, sectorState, rng, i + 1)
             ELSE TThrow(hooks.err, placedPrimitives, sectorState)

\* tick(placedPrimitives, sectorState, seed) of sim/engine.js; last is the call
\* made before.
engineTick(placedPrimitives, sectorState, seed, last) ==
    RunPrimitives(NewOutput(last), placedPrimitives, sectorState, createRng(seed), 1)

(***************************************************************************)
(* The calls of tick that are made.                                        *)
(***************************************************************************)
MaxPlaced == 2
MaxCopies == 6

Primitive(id, capabilities, generation, consumption, visibility) ==
    [id |-> id, capabilities |-> capabilities,
     sim |-> [power_generation |-> generation, power_consumption |-> consumption,
              visibility_score |-> visibility]]

\* The catalog's neon strip, and primitives for the other capabilities; the
\* last one names a capability the registry does not have.
NeonStrip ==
    Primitive("neon_light_strip_v2", <<"AESTHETIC", "LIGHTING", "WAYFINDING">>,
              Zero, Half, Tenth)
Generator == Primitive("generator", <<"POWER_GENERATION">>, Two, Zero, Zero)
Habitat == Primitive("habitat", <<"HABITATION", "STORAGE", "TRANSPORT">>, Zero, One, Zero)
DarkLamp == Primitive("dark_lamp", <<"LIGHTING">>, Zero, Zero, Tenth)
Teleporter == Primitive("teleporter", <<"LIGHTING", "TELEPORT">>, Zero, One, Zero)

Catalog == {NeonStrip, Generator, Habitat, DarkLamp, Teleporter}

\* All lists of at most n primitives of the set.
RECURSIVE ListsUpTo(_, _)
ListsUpTo(S, n) ==
    IF n = 0
    THEN {<<>>}
    ELSE ListsUpTo(S, n - 1)
           \cup {Append(l, p) : l \in {m \in ListsUpTo(S, n - 1) : Len(m) = n - 1}, p \in S}

\* k copies of p.
Copies(k, p) == [i \in 1..k |-> p]

\* The lists tick is given: every list of up to MaxPlaced primitives, and up to
\* MaxCopies copies of one primitive.
PlacedLists ==
    ListsUpTo(Catalog, MaxPlaced) \cup {Copies(k, p) : k \in 1..MaxCopies, p \in Catalog}

SectorStates == {[power |-> 100, visibility |-> 0], [power |-> 0, visibility |-> 7]}
Seeds == {42, 12345}

\* How the call before ended: returned, threw, or there was none.
EndOf(last) ==
    IF last.op # "tick" THEN "none" ELSE IF last.ok THEN "returned" ELSE "threw"

\* The call and its outcome, as the histories keep it; after is how the call
\* before it ended, where that is kept.
TCall(placedPrimitives, sectorState, seed, out, after) ==
    [op |-> "tick", placedPrimitives |-> placedPrimitives, sectorState |-> sectorState,
     seed |-> seed, ok |-> out.ok, ret |-> out.ret, err |-> out.err, left |-> out.left,
     after |-> after]

\* A call of the engine's tick.
EngineTick ==
    \E placedPrimitives \in PlacedLists, sectorState \in SectorStates, seed \in Seeds :
        /\ tLast' = TCall(placedPrimitives, sectorState, seed,
                          engineTick(placedPrimitives, sectorState, seed, tLast), NoValue)
        /\ UNCHANGED <<tFirst, structVars, swarmVars, snapshot, plannerVars, ledgerVars>>

TickNext == EngineTick

\* The engine module as loaded: no call made.  No controller is in use.
TickInit ==
    /\ tLast = NoCall
    /\ tFirst = NoCall
    /\ collected = EmptyTable
    /\ blueprint = NoBlueprint
    /\ pLast = NoCall
    /\ pSeen = EmptyTable
    /\ structures = EmptyTable
    /\ sPrev = EmptyTable
    /\ sLast = NoCall
    /\ buildLog = EmptyTable
    /\ config = NoValue
    /\ drones = EmptyTable
    /\ nextDroneId = 0
    /\ dPrev = Swarm(EmptyTable, 0)
    /\ dLast = NoCall
    /\ spawnLog = NoSpawnFailure
    /\ snapshot = NoSnapshot

TickSpec == TickInit /\ [][TickNext]_vars

(***************************************************************************)
(* Calls of tick one after another, the first one remembered.              *)
(***************************************************************************)
RepeatedLists == ListsUpTo({NeonStrip, Teleporter}, MaxPlaced)

EngineTickAgain ==
    \E placedPrimitives \in RepeatedLists, sectorState \in SectorStates, seed \in Seeds :
        LET call == TCall(placedPrimitives, sectorState, seed,
                          engineTick(placedPrimitives, sectorState, seed, tLast),
                          EndOf(tLast))
        IN  /\ tLast' = call
            /\ tFirst' = IF tFirst.op = "tick" THEN tFirst ELSE call
            /\ UNCHANGED <<structVars, swarmVars, snapshot, plannerVars, ledgerVars>>

TickAgainNext == EngineTickAgain

TickAgainSpec == TickInit /\ [][TickAgainNext]_vars

(***************************************************************************)
(* The tick engine: what a call returns.                                   *)
(***************************************************************************)
Ticked == tLast.op = "tick"
Placed == tLast.placedPrimitives
Output == tLast.ret
SameOutcome(a, b) == a.ok = b.ok /\ a.ret = b.ret /\ a.err = b.err

C28_SeedAndSectorDoNotMatter ==
    (Ticked /\ Placed = tFirst.placedPrimitives) => SameOutcome(tLast, tFirst)

\* C28 witness: a list with a lit LIGHTING primitive is ticked with another
\* seed and another sector state than in the first call.
C28_Witness ==
    /\ Ticked /\ tLast.after # "none"
    /\ Placed = tFirst.placedPrimitives
    /\ tLast.seed # tFirst.seed
    /\ tLast.sectorState.power = 0 /\ tFirst.sectorState.power > 0
    /\ tLast.ok /\ Output.light_level_delta # Zero

\* The places of the primitives that declare the capability.
Declares(capName) ==
    {i \in DOMAIN Placed :
        \E k \in DOMAIN Placed[i].capabilities : Placed[i].capabilities[k] = capName}

\* The places of the primitives that declare a name the registry lacks.
Unregistered ==
    {i \in DOMAIN Placed :
        \E k \in DOMAIN Placed[i].capabilities :
            Placed[i].capabilities[k] \notin CAPABILITIES}

\* C27: if any placed primitive declares a capability name that is not in the
\* registry, tick throws and returns no output at all, wherever the primitive
\* stands and whatever was accumulated before it; otherwise it returns.
C27_UnknownCapabilityAbortsTick ==
    Ticked =>
        IF Unregistered # {}
        THEN ~tLast.ok /\ Output = NoValue /\ tLast.err = "Unknown capability"
        ELSE tLast.ok

\* C27 witness: the second of two primitives declares LIGHTING and then an
\* unregistered name, behind a primitive whose hooks all ran.
C27_Witness ==
    /\ Ticked /\ ~tLast.ok
    /\ Len(Placed) = 2 /\ Unregistered = {2}
    /\ Len(Placed[1].capabilities) = 3
    /\ Placed[2].capabilities[1] \in CAPABILITIES

\* The doubles at the given places added up in order, from 0.
RECURSIVE SumOver(_, _)
SumOver(values, places) ==
    IF places = {}
    THEN Zero
    ELSE LET last == CHOOSE i \in places : \A j \in places : j <= i
         IN  FAdd(SumOver(values, places \ {last}), values[last])

\* The whole number n as a double.
Whole(n) == Double(n * 2^26, 0)

\* C26: a tick that returns gives power_consumed = the sum of power_consumption
\* over all primitives, power_delta = the sum of power_generation over those
\* declaring POWER_GENERATION, light_level_delta = the number of those
\* declaring LIGHTING with power_consumption > 0, morale_delta = 0.1 added up
\* once per primitive declaring AESTHETIC, visibility_score_delta = the sum of
\* visibility_score over those declaring WAYFINDING; HABITATION, STORAGE and
\* TRANSPORT add nothing.  The neon strip alone gives {0, c, 1.0, 0.1, v}.
C26_OutputIsReferenceAggregation ==
    (Ticked /\ tLast.ok) =>
        /\ Output.power_consumed
             = SumOver([i \in DOMAIN Placed |-> Placed[i].sim.power_consumption],
                       DOMAIN Placed)
        /\ Output.power_delta
             = SumOver([i \in DOMAIN Placed |-> Placed[i].sim.power_generation],
                       Declares("POWER_GENERATION"))
        /\ Output.light_level_delta
             = Whole(Cardinality({i \in Declares("LIGHTING") :
                                     Placed[i].sim.power_consumption # Zero}))
        /\ Output.morale_delta
             = SumOver([i \in DOMAIN Placed |-> Tenth], Declares("AESTHETIC"))
        /\ Output.visibility_score_delta
             = SumOver([i \in DOMAIN Placed |-> Placed[i].sim.visibility_score],
                       Declares("WAYFINDING"))
        /\ Placed = <<NeonStrip>> =>
             Output = [power_delta |-> Zero,
                       power_consumed |-> NeonStrip.sim.power_consumption,
                       light_level_delta |-> One, morale_delta |-> Tenth,
                       visibility_score_delta |-> NeonStrip.sim.visibility_score]

\* C26 witness: a neon strip beside a primitive that declares HABITATION,
\* STORAGE and TRANSPORT: only the latter's consumption shows in the output.
C26_Witness ==
    /\ Ticked /\ tLast.ok
    /\ Placed = <<NeonStrip, Habitat>>
    /\ Output.power_consumed = FAdd(Half, One)
    /\ Output.morale_delta = Tenth /\ Output.light_level_delta = One

\* C25: k copies of a primitive with registered capabilities give k times what
\* one copy gives, in power_consumed and in each of the four deltas.
C25_Claimed_TickIsLinear ==
    (Ticked /\ tLast.ok /\ Placed # <<>> /\ Placed = Copies(Len(Placed), Placed[1])) =>
        LET single == engineTick(<<Placed[1]>>, tLast.sectorState, tLast.seed, NoCall).ret
        IN  \A key \in DOMAIN Output : Output[key] = FTimes(Len(Placed), single[key])

(***************************************************************************)
(* StructureController: decommission and the countdown.                    *)
(***************************************************************************)
\* C29: decommission(id) of an existing facility succeeds in every state, the
\* decommissioned one included, and leaves it DECOMMISSIONED with
\* ticksRemaining 0 and the tier it had: a facility retired in the middle of an
\* upgrade does not get the tier increment, then or later.
C29_DecommissionFromAnyState ==
    /\ (sLast.op = "decommission" /\ HasStructure(sPrev, sLast.id)) =>
          /\ sLast.ok
          /\ sPrev[sLast.id].state \in StructureState
          /\ structures[sLast.id] = [state |-> DECOMMISSIONED,
                                     tier |-> sPrev[sLast.id].tier,
                                     ticksRemaining |-> 0]
    /\ \A id \in Tracked :
          sPrev[id].state = DECOMMISSIONED => structures[id].tier = sPrev[id].tier

\* C29 witness: the facility was UPGRADING with ticks left when it was
\* decommissioned.
C29_Witness ==
    /\ sLast.op = "decommission" /\ sLast.ok
    /\ sPrev[sLast.id].state = UPGRADING
    /\ sPrev[sLast.id].ticksRemaining > 0
    /\ structures[sLast.id].state = DECOMMISSIONED

\* C30: a facility with ticksRemaining other than 0 is BUILDING or UPGRADING,
\* so PLANNED, OPERATIONAL and DECOMMISSIONED facilities have ticksRemaining 0;
\* and ticksRemaining is negative only from a startBuild or startUpgrade that
\* was given a negative tick count, never otherwise.
C30_CountdownOnlyWhileBuilding ==
    \A id \in DOMAIN structures :
        /\ structures[id].ticksRemaining # 0
             => structures[id].state \in {BUILDING, UPGRADING}
        /\ structures[id].ticksRemaining < 0
             => \/ id \in DOMAIN sPrev /\ sPrev[id].ticksRemaining < 0
                \/ /\ sLast.op \in {"startBuild", "startUpgrade"}
                   /\ sLast.id = id /\ sLast.ok /\ sLast.arg < 0

\* C30 witness: a facility that was BUILDING with ticks left has just been
\* decommissioned, beside one that is still counting down.
C30_Witness ==
    /\ sLast.op = "decommission" /\ sLast.ok
    /\ sPrev[sLast.id].state = BUILDING /\ sPrev[sLast.id].ticksRemaining > 0
    /\ structures[sLast.id].ticksRemaining = 0
    /\ \E id \in DOMAIN structures :
          structures[id].state = UPGRADING /\ structures[id].ticksRemaining > 0

(***************************************************************************)
(* StructureController: what one tick() does to the whole table.           *)
(***************************************************************************)
InProgress(s) == s.state \in {BUILDING, UPGRADING}

\* C31: one call of tick() takes the countdown of every BUILDING or UPGRADING
\* facility from r to max(0, r - 1), all of them in that one call, and leaves
\* every PLANNED, OPERATIONAL and DECOMMISSIONED facility's state, tier and
\* ticksRemaining as they were; a facility is advanced once per call: one whose
\* countdown is still above 0 keeps its state and tier, one that reaches 0 is
\* OPERATIONAL with one tier more if it was UPGRADING, and nothing further.
C31_TickAdvancesEveryCountdownOnce ==
    sLast.op = "tick" =>
        /\ sLast.ok
        /\ DOMAIN structures = DOMAIN sPrev
        /\ \A id \in DOMAIN sPrev :
            LET was == sPrev[id]
                now == structures[id]
                r == Max(0, was.ticksRemaining - 1)
            IN  IF InProgress(was)
                THEN /\ now.ticksRemaining = r
                     /\ IF r > 0
                        THEN now.state = was.state /\ now.tier = was.tier
                        ELSE /\ now.state = OPERATIONAL
                             /\ now.tier = IF was.state = UPGRADING
                                           THEN was.tier + 1 ELSE was.tier
                ELSE now = was

\* C31 witness: one tick() has completed an upgrade that had one tick left and
\* taken a build in progress from two or more ticks down by one.
C31_Witness ==
    /\ sLast.op = "tick"
    /\ \E id \in Tracked :
        /\ sPrev[id].state = UPGRADING /\ sPrev[id].ticksRemaining = 1
        /\ structures[id].state = OPERATIONAL
    /\ \E id \in Tracked :
        /\ sPrev[id].state = BUILDING /\ sPrev[id].ticksRemaining >= 2
        /\ structures[id].state = BUILDING
        /\ structures[id].ticksRemaining = sPrev[id].ticksRemaining - 1

Busy(d) == drones[d].state \in {"collecting", "returning"}
FirstWaypoint(routeId) == FindRoute(config, routeId).waypoints[1]

C36_IdleIsEmptyAndBusyIsOnARoute ==
    \A d \in DOMAIN drones :
        /\ drones[d].state \in {"idle", "collecting", "returning"}
        /\ drones[d].state = "idle" =>
              drones[d].cargo = 0 /\ drones[d].routeId = NoRoute
        /\ Busy(d) =>
              /\ drones[d].routeId # NoRoute
              /\ \E i \in 1..Len(config.patrolRoutes) :
                    config.patrolRoutes[i].id = drones[d].routeId

\* C36 witness: a loaded drone on the perimeter route has just returned and is
\* idle and empty, while another drone is still out collecting.
C36_Witness ==
    /\ Succeeded("returnToHub")
    /\ Before.cargo > 0 /\ Before.routeId = "route-perimeter"
    /\ After.state = "idle" /\ After.cargo = 0 /\ After.routeId = NoRoute
    /\ \E d \in DOMAIN drones : drones[d].state = "collecting"

\* The threshold test on whole numbers: cargo / cargoCapacity >= 1 - num / den.
Full(cargo) ==
    cargo * config.droneSpec.returnThreshold.den
       >= (config.droneSpec.returnThreshold.den - config.droneSpec.returnThreshold.num)
             * Capacity
AsShipped == config = SwarmConfig(2, 50, 1, 10)

C40_DispatchValidationOrder ==
    dLast.op = "dispatch" =>
        /\ dLast.err = (IF ~Known THEN "unknown drone"
                        ELSE IF ~Configured(dLast.arg) THEN "unknown route"
                        ELSE IF Before.state # "idle" THEN "not idle"
                        ELSE "none")
        /\ dLast.ok <=> dLast.err = "none"
        /\ ~dLast.ok => (drones = dPrev.drones /\ nextDroneId = dPrev.nextDroneId)

\* C40 witness: a drone that is out collecting with cargo aboard has been
\* dispatched to a route that is not configured, and got the unknown-route error.
C40_Witness ==
    /\ dLast.op = "dispatch" /\ ~dLast.ok /\ Known
    /\ Before.state = "collecting" /\ Before.cargo > 0
    /\ ~Configured(dLast.arg)
    /\ dLast.err = "unknown route"

(***************************************************************************)
(* PlannerController: the storage stage without a refinery.                *)
(***************************************************************************)
\* The silos and vaults that store the wanted resource type itself.
StoringWanted ==
    {i \in PlacesOf("storage-zone", {"silo", "vault"}) :
        InZone("storage-zone")[i].storedType = Wanted}

ProcessingIds ==
    {InZone("processing-zone")[i].id : i \in DOMAIN InZone("processing-zone")}

\* C39: when planRoute finds no refinery taking resourceType, the blueprint
\* having no processing zone or none with such a refinery, the storage stage
\* still runs with resourceType itself as the type to store: the route has no
\* stop in the processing zone, then the first silo or vault whose storedType
\* is resourceType, if there is one, then the distribution dock, if there is one.
C39_WithoutRefineryStoresTheResourceItself ==
    (Planned /\ HasIntakeDock /\ RefineryPlaces = {}) =>
        /\ Route = <<IntakeDock.id>>
                     \o Stop("intake-zone", ConveyorPlaces)
                     \o Stop("storage-zone", StoringWanted)
                     \o Stop("distribution-zone", OutDockPlaces)
        /\ \A j \in DOMAIN Route : Route[j] \notin ProcessingIds

\* C39 witness: the processing zone has a smelter taking raw-ore and a refinery
\* taking crystal-shard only; the route for raw-ore skips the zone, stops at
\* the silo of raw-ore and ends at the export dock.
C39_Witness ==
    /\ Planned /\ HasIntakeDock /\ RefineryPlaces = {}
    /\ Wanted = "raw-ore"
    /\ PlacesOf("processing-zone", {"refinery"}) # {}
    /\ \E j \in DOMAIN Route :
          /\ Route[j] = "silo-raw"
          /\ j < Len(Route) /\ Route[j + 1] = "export-dock-1"

(***************************************************************************)
(* Both controllers in one program, as the simulation builds them from one *)
(* blueprint (sim.test.js 149, 190): a StructureController and a           *)
(* SwarmController of the blueprint's swarm section, called in any order.  *)
(* Facilities are registered at tier 1 and upgraded once, builds and       *)
(* upgrades take SiteTicks ticks, collect is asked for SiteAmounts and     *)
(* dispatch names one of SiteRoutes.                                       *)
(***************************************************************************)
SiteTicks == {1}
SiteAmounts == {60}
SiteRoutes == {"route-intake-sweep", "nonexistent-route"}

SiteInit ==
    /\ structures = EmptyTable
    /\ sPrev = EmptyTable
    /\ sLast = NoCall
    /\ buildLog = EmptyTable
    /\ config = SwarmConfig(2, 50, 1, 10)
    /\ drones = EmptyTable
    /\ nextDroneId = 0
    /\ dPrev = Swarm(EmptyTable, 0)
    /\ dLast = NoCall
    /\ spawnLog = NoSpawnFailure
    /\ snapshot = NoSnapshot
    /\ blueprint = NoBlueprint
    /\ pLast = NoCall
    /\ pSeen = EmptyTable
    /\ tLast = NoCall
    /\ tFirst = NoCall
    /\ collected = EmptyTable

SiteNext ==
    \/ Register /\ sLast'.arg = 1
    \/ StartBuild /\ sLast'.arg \in SiteTicks
    \/ StartUpgrade /\ sLast'.arg \in SiteTicks
                    /\ (sLast'.ok => structures[sLast'.id].tier = 1)
    \/ Decommission
    \/ Tick
    \/ SpawnDrone
    \/ Dispatch /\ dLast'.arg \in SiteRoutes
    \/ Collect /\ dLast'.arg \in SiteAmounts
    \/ ReturnToHub

SiteSpec == SiteInit /\ [][SiteNext]_vars

\* The entities whose record the last call of each controller made or changed.
FacilitiesTouched ==
    {id \in DOMAIN structures : id \notin DOMAIN sPrev \/ structures[id] # sPrev[id]}
DronesTouched ==
    {d \in DOMAIN drones : d \notin DOMAIN dPrev.drones \/ drones[d] # dPrev.drones[d]}

\* C38: startBuild, startUpgrade and decommission on facility f change no
\* record but f's, and register changes no record that was there; dispatch,
\* collect and returnToHub on drone d change no drone but d, and spawnDrone
\* changes no drone that was there (cargo, position, state, routeId); no call
\* removes an entity; so every call but StructureController.tick() touches at
\* most one entity.
C38_CallsTouchOnlyTheirEntity ==
    /\ DOMAIN sPrev \subseteq DOMAIN structures
    /\ sLast.op \in {"startBuild", "startUpgrade", "decommission"} =>
          FacilitiesTouched \subseteq {sLast.id} \cap DOMAIN sPrev
    /\ sLast.op = "register" =>
          FacilitiesTouched \subseteq {sLast.id} \ DOMAIN sPrev
    /\ sLast.op # "tick" => Cardinality(FacilitiesTouched) <= 1
    /\ DOMAIN dPrev.drones \subseteq DOMAIN drones
    /\ dLast.op \in {"dispatch", "collect", "returnToHub"} =>
          DronesTouched \subseteq {dLast.id} \cap DOMAIN dPrev.drones
    /\ dLast.op = "spawnDrone" =>
          DronesTouched \subseteq DOMAIN drones \ DOMAIN dPrev.drones
    /\ Cardinality(DronesTouched) <= 1

\* C38 witness: the last StructureController call started an upgrade of one
\* facility beside one that is mid-build, and the last SwarmController call
\* brought one drone home beside one that is returning with cargo aboard.
C38_Witness ==
    /\ sLast.op = "startUpgrade" /\ sLast.ok
    /\ FacilitiesTouched = {sLast.id}
    /\ \E id \in DOMAIN structures \ {sLast.id} :
          structures[id].state = BUILDING /\ structures[id].ticksRemaining > 0
    /\ Succeeded("returnToHub")
    /\ DronesTouched = {dLast.id}
    /\ \E d \in DOMAIN drones \ {dLast.id} :
          drones[d].state = "returning" /\ drones[d].cargo > 0

(***************************************************************************)
(* SwarmController with a ledger kept beside it: for every drone, the sum  *)
(* of what its successful collect calls returned since its most recent     *)
(* successful dispatch (0 for a drone never dispatched).                   *)
(***************************************************************************)
CollectedAfter(call, out, ledger) ==
    IF ~out.ok THEN ledger
    ELSE IF call.op = "spawnDrone"
         THEN [d \in DOMAIN out.drones |-> IF d \in DOMAIN ledger THEN ledger[d] ELSE 0]
    ELSE IF call.op = "dispatch"
         THEN [ledger EXCEPT ![call.id] = 0]
    ELSE IF call.op = "collect"
         THEN [ledger EXCEPT ![call.id] = @ + out.ret]
    ELSE ledger

LedgerStep(call, out) ==
    /\ WCore(call, out)
    /\ snapshot' = AfterSwarmCall(snapshot, call, out)
    /\ collected' = CollectedAfter(call, out, collected)

LedgerSpawnDrone ==
    LedgerStep(Call("spawnDrone", NoDrone, NoValue), spawnDrone(config, Now))

LedgerDispatch ==
    \E d \in DroneIdArgs, r \in RouteIdArgs :
        LedgerStep(Call("dispatch", d, r), dispatch(config, Now, d, r))

\* Cargo is followed down to -5 * MaxDebt, no further.
LedgerCollect ==
    \E d \in DroneIdArgs, amount \in AmountArgs :
        LET out == collect(config, Now, d, amount)
        IN  /\ out.ok => out.drones[d].cargo >= 0 - 5 * MaxDebt
            /\ LedgerStep(Call("collect", d, amount), out)

LedgerReturnToHub ==
    \E d \in DroneIdArgs :
        LedgerStep(Call("returnToHub", d, NoValue), returnToHub(config, Now, d))

LedgerNext ==
    \/ LedgerSpawnDrone
    \/ LedgerDispatch
    \/ LedgerCollect
    \/ LedgerReturnToHub

\* new SwarmController(blueprint.swarm): the drone spec as shipped, no drones,
\* an empty ledger.
LedgerInit ==
    /\ config = SwarmConfig(2, 50, 1, 10)
    /\ drones = EmptyTable
    /\ nextDroneId = 0
    /\ dPrev = Swarm(EmptyTable, 0)
    /\ dLast = NoCall
    /\ spawnLog = NoSpawnFailure
    /\ collected = EmptyTable
    /\ snapshot = NoSnapshot
    /\ blueprint = NoBlueprint
    /\ pLast = NoCall
    /\ pSeen = EmptyTable
    /\ tLast = NoCall
    /\ tFirst = NoCall
    /\ structures = EmptyTable
    /\ sPrev = EmptyTable
    /\ sLast = NoCall
    /\ buildLog = EmptyTable

LedgerSpec == LedgerInit /\ [][LedgerNext]_vars

\* C33 as claimed: what a successful returnToHub returns is the sum of what the
\* successful collect calls on that drone returned since its most recent
\* dispatch, and every drone's cargo is that sum at all times.
C33_Claimed_CargoAlwaysEqualsCollected ==
    /\ Succeeded("returnToHub") => dLast.ret = collected[Target]
    /\ \A d \in DOMAIN drones : drones[d].cargo = collected[d]

\* C33: what a successful returnToHub returns is the sum of what the successful
\* collect calls on that drone returned since its most recent dispatch (0
\* without any); the cargo of a drone that is collecting or returning is that
\* sum, and the cargo of an idle drone is 0, whatever it collected on its last
\* run.
C33_ReturnedIsCollectedSinceDispatch ==
    /\ DOMAIN collected = DOMAIN drones
    /\ Succeeded("returnToHub") => dLast.ret = collected[Target]
    /\ \A d \in DOMAIN drones :
          IF Busy(d)
          THEN drones[d].cargo = collected[d]
          ELSE drones[d].cargo = 0

\* C33 witness: a drone has returned what three collect calls loaded, the last
\* of them cut short by the capacity, and is idle and empty with that sum on
\* the ledger.
C33_Witness ==
    /\ Succeeded("returnToHub")
    /\ dLast.ret = Capacity /\ Capacity = 50
    /\ collected[Target] = 50
    /\ After.cargo = 0 /\ After.state = "idle"

(***************************************************************************)
(* StructureController with a caller that keeps calling tick(): the        *)
(* simulation's loop calls tick() once per simulated tick for as long as   *)
(* it runs (sim.test.js 163-166, 254-260), so tick() is not postponed for  *)
(* ever while it has something to do.  The calls are those that change a   *)
(* facility; facilities are registered at tier 1 and tick counts are 0 to  *)
(* MaxTicks.                                                               *)
(***************************************************************************)
LifecycleNext ==
    \/ Register /\ sLast'.arg = 1
    \/ StartBuild /\ sLast'.arg >= 0
    \/ StartUpgrade /\ sLast'.arg >= 0
    \/ Decommission
    \/ Tick

StructFairSpec == StructInit /\ [][LifecycleNext]_vars /\ WF_vars(Tick)

Building(id) == HasStructure(structures, id) /\ InProgress(structures[id])
Settled(id) ==
    HasStructure(structures, id)
        /\ structures[id].state \in {OPERATIONAL, DECOMMISSIONED}

\* One more tick() for a facility in progress with countdown r: with r <= 1 it
\* is OPERATIONAL, with r > 1 it has r - 1 left; so it is OPERATIONAL after
\* max(r, 1) ticks.
TickBringsCompletionNearer ==
    (sLast'.op = "tick" /\ sPrev' = structures /\ structures' = tick(structures).structures) =>
        \A id \in DOMAIN structures :
            InProgress(structures[id]) =>
                IF structures[id].ticksRemaining <= 1
                THEN structures'[id].state = OPERATIONAL
                ELSE /\ InProgress(structures'[id])
                     /\ structures'[id].ticksRemaining = structures[id].ticksRemaining - 1

\* Between ticks a facility in progress keeps its countdown, or is decommissioned.
OnlyTickOrDecommissionEndsIt ==
    sLast'.op # "tick" =>
        \A id \in DOMAIN structures :
            InProgress(structures[id]) =>
                \/ structures'[id] = structures[id]
                \/ structures'[id].state = DECOMMISSIONED

\* C34: with tick() called again and again (weak fairness on tick), every
\* facility that is BUILDING or UPGRADING eventually is OPERATIONAL, or
\* DECOMMISSIONED if it was decommissioned first; each tick() takes a countdown
\* r > 1 to r - 1 and completes a facility with r <= 1, so a facility that is
\* not decommissioned is OPERATIONAL after max(r, 1) ticks, and no other call
\* sets a countdown in progress back.
C34_InProgressEventuallyCompletes ==
    /\ \A id \in FacilityIds : Building(id) ~> Settled(id)
    /\ [][TickBringsCompletionNearer /\ OnlyTickOrDecommissionEndsIt]_vars

\* C34 witness: a build started with MaxTicks ticks has just become OPERATIONAL
\* on its MaxTicks-th tick, beside a facility that was decommissioned.
C34_Witness ==
    /\ sLast.op = "tick"
    /\ \E id \in Tracked :
        /\ buildLog[id].tracked /\ buildLog[id].n = MaxTicks
        /\ buildLog[id].k = MaxTicks
        /\ sPrev[id].state = BUILDING /\ structures[id].state = OPERATIONAL
    /\ \E id \in Tracked : structures[id].state = DECOMMISSIONED

====
